---- MODULE Spec2Model ----
(***************************************************************************)
(* Verification model of the piston test-harness generators: the          *)
(* generated runners' test loops, the /testCompile handler, the generator *)
(* registry, the Python literal renderer and the runners' comparators.    *)
(* Each part of the program has its own variables and its own             *)
(* specification; the variables of the other parts stay at their idle     *)
(* values in it.                                                          *)
(***************************************************************************)
EXTENDS Integers, Sequences, FiniteSets, TLC

VARIABLES
    gLanguage,  \* registry: the language identifier passed to generateTestRunner
    gFiles,     \* registry: the caller's files array
    gTestCases, \* registry: the caller's test cases
    gOut,       \* registry: what generateTestRunner returned or threw
    hReq,       \* /testCompile: the request body
    hPc,        \* /testCompile: where the handler is
    hRunner,    \* /testCompile: runnerResult (its mode)
    hExec,      \* /testCompile: execResult returned by job.execute
    hResp,      \* /testCompile: the response sent
    hEvents,    \* /testCompile: the calls made so far, in order
    pyNesting,  \* PythonGenerator: nestingLevel of the registry's shared instance
    pyArg,      \* PythonGenerator: argument of the last top-level valueToCode call
    pyOut,      \* PythonGenerator: what that call returned or threw
    cBackend,   \* comparator: the backend whose comparator is applied
    cA,         \* comparator: the actual value
    cB,         \* comparator: the expected value
    cRes,       \* comparator: "none" before the call, then "eq" or "ne"
    xBackend,   \* C++ end to end: "stdin" (expected by stdin) or "embedded"
    xCase,      \* C++ end to end: the test case (type of the call's result, expected)
    xPc,        \* C++ end to end: "gen" | "run" | "done"
    xWire,      \* C++ end to end: the expected value's JSON text handed to the runner
    xVerdict,   \* C++ end to end: the outcome of the case
    rBackend,   \* runner: the backend whose generated runner is executing
    rCases,     \* runner: what evaluating each embedded call does
    rIdx,       \* runner: number of cases the loop has gone through
    rResults,   \* runner: the results list built so far
    rStatus,    \* runner: "idle" | "running" | "done" (stdout written) | "aborted"
    fnName,     \* function bench: the function under study ("none" when idle)
    fnArg,      \* function bench: the arguments it is applied to
    fnRes,      \* function bench: [done, ...] what it returned or threw
    wsJob,      \* /connect: the handler's variable job (0 is null, else a job's number)
    wsJobs,     \* /connect: the Job objects created, with the calls made on each
    wsHandlers, \* /connect: the init handlers started, each with its position
    wsSocket,   \* /connect: whether the socket is open and the code it was closed with
    wsTimer,    \* /connect: "armed" | "fired", the 1-second initialization timer
    wsLog       \* /connect: the messages handled and timer firings, with their outcome

registryVars == <<gLanguage, gFiles, gTestCases, gOut>>
handlerVars == <<hReq, hPc, hRunner, hExec, hResp, hEvents>>
pythonVars == <<pyNesting, pyArg, pyOut>>
compareVars == <<cBackend, cA, cB, cRes>>
cppVars == <<xBackend, xCase, xPc, xWire, xVerdict>>
runnerVars == <<rBackend, rCases, rIdx, rResults, rStatus>>
fnVars == <<fnName, fnArg, fnRes>>

connectVars == <<wsJob, wsJobs, wsHandlers, wsSocket, wsTimer, wsLog>>

vars ==
    <<registryVars, handlerVars, pythonVars, compareVars, cppVars, runnerVars, fnVars,
      connectVars>>

(***************************************************************************)
(* Bounds of the model.                                                    *)
(***************************************************************************)
MaxCases == 3
MaxFiles == 2
MaxTests == 2

\* Sequences over S of length lo..hi.
SeqsOf(S, lo, hi) == UNION {[1..n -> S] : n \in lo..hi}

\* What each part's actions leave alone.
RegistryFrame ==
    UNCHANGED <<handlerVars, pythonVars, compareVars, cppVars, runnerVars, fnVars, connectVars>>
HandlerFrame ==
    UNCHANGED <<registryVars, pythonVars, compareVars, cppVars, runnerVars, fnVars, connectVars>>
PythonFrame ==
    UNCHANGED <<registryVars, handlerVars, compareVars, cppVars, runnerVars, fnVars, connectVars>>
CompareFrame ==
    UNCHANGED <<registryVars, handlerVars, pythonVars, cppVars, runnerVars, fnVars, connectVars>>
CppFrame ==
    UNCHANGED <<registryVars, handlerVars, pythonVars, compareVars, runnerVars, fnVars, connectVars>>
RunnerFrame ==
    UNCHANGED <<registryVars, handlerVars, pythonVars, compareVars, cppVars, fnVars, connectVars>>
FnFrame ==
    UNCHANGED <<registryVars, handlerVars, pythonVars, compareVars, cppVars, runnerVars,
                connectVars>>
ConnectFrame ==
    UNCHANGED <<registryVars, handlerVars, pythonVars, compareVars, cppVars, runnerVars, fnVars>>

(***************************************************************************)
(* Values.  One record shape for every value, so that any two values can   *)
(* be compared: t is the tag, b a boolean, n a number in units of 1/Unit,  *)
(* k the class of a float ("fin", "nan", "pinf", "ninf"), s a string as   *)
(* the sequence of its pieces (single characters wherever the program     *)
(* looks inside the string), a the elements of an array, o the entries    *)
(* [key, val] of an object in insertion order.                            *)
(***************************************************************************)
Unit == 10 * 10 * 10 * 10 * 10 * 10 * 10 * 10

Blank == [t |-> "null", b |-> FALSE, n |-> 0, k |-> "fin", s |-> <<>>, a |-> <<>>, o |-> <<>>]
VNull == Blank
VUndef == [Blank EXCEPT !.t = "undefined"]
VBool(x) == [Blank EXCEPT !.t = "bool", !.b = x]
VInt(i) == [Blank EXCEPT !.t = "int", !.n = i * Unit]
VFloatRaw(x) == [Blank EXCEPT !.t = "float", !.n = x]
VFloat(i) == VFloatRaw(i * Unit)
VNaN == [Blank EXCEPT !.t = "float", !.k = "nan"]
VInf == [Blank EXCEPT !.t = "float", !.k = "pinf"]
VNegInf == [Blank EXCEPT !.t = "float", !.k = "ninf"]
VStr(x) == [Blank EXCEPT !.t = "str", !.s = x]
VArr(x) == [Blank EXCEPT !.t = "arr", !.a = x]
VObj(x) == [Blank EXCEPT !.t = "obj", !.o = x]
Entry(key, val) == [key |-> key, val |-> val]

RECURSIVE MapSeq(_, _)
\* Array.prototype.map over a sequence, for an operator of one argument.
MapSeq(Op(_), q) == IF q = <<>> THEN <<>> ELSE <<Op(Head(q))>> \o MapSeq(Op, Tail(q))

RECURSIVE SelectEntries(_, _)
\* The entries of q that satisfy Keep, in order.
SelectEntries(Keep(_), q) ==
    IF q = <<>> THEN <<>>
    ELSE (IF Keep(Head(q)) THEN <<Head(q)>> ELSE <<>>) \o SelectEntries(Keep, Tail(q))

(***************************************************************************)
(* JSON.stringify and JSON.parse of the host (JavaScript) values.  The     *)
(* text is modelled by the document it denotes: a document has the tags    *)
(* "j:null", "j:bool", "j:num", "j:str", "j:arr", "j:obj" only.            *)
(***************************************************************************)
\* A host number is a value with tag "int" or "float" (JavaScript has one
\* number type; the tag records how the literal was written).
IsNumber(v) == v.t \in {"int", "float"}

RECURSIVE JsonStringify(_)
\* JSON.stringify(v) for v in value position: undefined, NaN and +-Infinity
\* become null; an object entry whose value is undefined is left out.
JsonStringify(v) ==
    CASE v.t = "undefined" -> [Blank EXCEPT !.t = "j:null"]
      [] v.t = "null" -> [Blank EXCEPT !.t = "j:null"]
      [] v.t = "bool" -> [Blank EXCEPT !.t = "j:bool", !.b = v.b]
      [] IsNumber(v) ->
            IF v.k = "fin" THEN [Blank EXCEPT !.t = "j:num", !.n = v.n]
            ELSE [Blank EXCEPT !.t = "j:null"]
      [] v.t = "str" -> [Blank EXCEPT !.t = "j:str", !.s = v.s]
      [] v.t = "arr" -> [Blank EXCEPT !.t = "j:arr", !.a = MapSeq(JsonStringify, v.a)]
      [] v.t = "obj" ->
            LET Defined(e) == e.val.t # "undefined"
                Enc(e) == Entry(e.key, JsonStringify(e.val))
            IN [Blank EXCEPT !.t = "j:obj", !.o = MapSeq(Enc, SelectEntries(Defined, v.o))]

RECURSIVE JsonParse(_)
\* JSON.parse of a document: a number written without a fraction is the same
\* host number as one written with it, so every number comes back as "int"
\* when it is whole and "float" otherwise.
JsonParse(d) ==
    CASE d.t = "j:null" -> VNull
      [] d.t = "j:bool" -> VBool(d.b)
      [] d.t = "j:num" -> IF d.n % Unit = 0 THEN [Blank EXCEPT !.t = "int", !.n = d.n]
                          ELSE VFloatRaw(d.n)
      [] d.t = "j:str" -> VStr(d.s)
      [] d.t = "j:arr" -> VArr(MapSeq(JsonParse, d.a))
      [] d.t = "j:obj" -> LET Dec(e) == Entry(e.key, JsonParse(e.val))
                          IN VObj(MapSeq(Dec, d.o))

(***************************************************************************)
(* The registry: generators, getGenerator, generateTestRunner,             *)
(* hasNativeSupport.  A language identifier is a sequence of characters.   *)
(***************************************************************************)
generators ==
    { [key |-> <<"p", "y", "t", "h", "o", "n">>, family |-> "python"],
      [key |-> <<"p", "y", "t", "h", "o", "n", "2">>, family |-> "python"],
      [key |-> <<"p", "y", "t", "h", "o", "n", "3">>, family |-> "python"],
      [key |-> <<"p", "y", "t", "h", "o", "n", "3", ".", "1", "0">>, family |-> "python"],
      [key |-> <<"p", "y", "t", "h", "o", "n", "3", ".", "1", "1">>, family |-> "python"],
      [key |-> <<"p", "y", "t", "h", "o", "n", "3", ".", "1", "2">>, family |-> "python"],
      [key |-> <<"j", "a", "v", "a", "s", "c", "r", "i", "p", "t">>, family |-> "javascript"],
      [key |-> <<"n", "o", "d", "e">>, family |-> "javascript"],
      [key |-> <<"n", "o", "d", "e", "j", "s">>, family |-> "javascript"],
      [key |-> <<"n", "o", "d", "e", "-", "j", "a", "v", "a", "s", "c", "r", "i", "p", "t">>, family |-> "javascript"],
      [key |-> <<"t", "y", "p", "e", "s", "c", "r", "i", "p", "t">>, family |-> "javascript"],
      [key |-> <<"t", "s">>, family |-> "javascript"],
      [key |-> <<"j", "a", "v", "a">>, family |-> "java"],
      [key |-> <<"c", "p", "p">>, family |-> "cpp"],
      [key |-> <<"c", "+", "+">>, family |-> "cpp"],
      [key |-> <<"c", "p", "p", "1", "7">>, family |-> "cpp"],
      [key |-> <<"c", "p", "p", "2", "0">>, family |-> "cpp"],
      [key |-> <<"c", "s", "h", "a", "r", "p">>, family |-> "csharp"],
      [key |-> <<"c", "#">>, family |-> "csharp"],
      [key |-> <<"c", "s">>, family |-> "csharp"],
      [key |-> <<"d", "o", "t", "n", "e", "t">>, family |-> "csharp"],
      [key |-> <<"g", "o">>, family |-> "go"],
      [key |-> <<"g", "o", "l", "a", "n", "g">>, family |-> "go"],
      [key |-> <<"r", "u", "b", "y">>, family |-> "ruby"] }

ObjectPrototypeKeys ==
    { <<"c", "o", "n", "s", "t", "r", "u", "c", "t", "o", "r">>,
      <<"t", "o", "S", "t", "r", "i", "n", "g">>,
      <<"v", "a", "l", "u", "e", "O", "f">>,
      <<"h", "a", "s", "O", "w", "n", "P", "r", "o", "p", "e", "r", "t", "y">>,
      <<"i", "s", "P", "r", "o", "t", "o", "t", "y", "p", "e", "O", "f">>,
      <<"t", "o", "L", "o", "c", "a", "l", "e", "S", "t", "r", "i", "n", "g">>,
      <<"_", "_", "p", "r", "o", "t", "o", "_", "_">> }

LanguageInputs ==
    { <<"p", "y", "t", "h", "o", "n">>,
      <<"P", "y", "t", "h", "o", "n", " ", "3">>,
      <<"P", "Y", "T", "H", "O", "N", "3", ".", "1", "0">>,
      <<"n", "o", "d", "e", "-", "j", "a", "v", "a", "s", "c", "r", "i", "p", "t">>,
      <<"C", "+", "+">>,
      <<"c", "#">>,
      <<"G", "o">>,
      <<"b", "r", "a", "i", "n", "f", "c", "k">>,
      <<"r", "u", "s", "t">>,
      <<"c", "o", "n", "s", "t", "r", "u", "c", "t", "o", "r">>,
      <<"C", "o", "n", "s", "t", "r", "u", "c", "t", "o", "r">>,
      <<"t", "o", "S", "t", "r", "i", "n", "g">>,
      <<"_", "_", "p", "r", "o", "t", "o", "_", "_">>,
      << >> }

UpperToLower ==
    [c \in {"A", "B", "C", "D", "E", "F", "G", "H", "I", "J", "K", "L", "M", "N", "O", "P", "Q", "R", "S", "T", "U", "V", "W", "X", "Y", "Z"} |->
        CASE c = "A" -> "a"
          [] c = "B" -> "b"
          [] c = "C" -> "c"
          [] c = "D" -> "d"
          [] c = "E" -> "e"
          [] c = "F" -> "f"
          [] c = "G" -> "g"
          [] c = "H" -> "h"
          [] c = "I" -> "i"
          [] c = "J" -> "j"
          [] c = "K" -> "k"
          [] c = "L" -> "l"
          [] c = "M" -> "m"
          [] c = "N" -> "n"
          [] c = "O" -> "o"
          [] c = "P" -> "p"
          [] c = "Q" -> "q"
          [] c = "R" -> "r"
          [] c = "S" -> "s"
          [] c = "T" -> "t"
          [] c = "U" -> "u"
          [] c = "V" -> "v"
          [] c = "W" -> "w"
          [] c = "X" -> "x"
          [] c = "Y" -> "y"
          [] c = "Z" -> "z"]

KeptChars ==
    {"a", "b", "c", "d", "e", "f", "g", "h", "i", "j", "k", "l", "m", "n", "o", "p", "q", "r", "s", "t", "u", "v", "w", "x", "y", "z", "0", "1", "2", "3", "4", "5", "6", "7", "8", "9", "+", "#"}

\* String.prototype.toLowerCase on one character.
ToLowerChar(c) == IF c \in DOMAIN UpperToLower THEN UpperToLower[c] ELSE c

RECURSIVE NormalizeLanguage(_)
\* language.toLowerCase().replace(/[^a-z0-9+#]/g, '')
NormalizeLanguage(q) ==
    IF q = <<>> THEN <<>>
    ELSE LET c == ToLowerChar(Head(q))
         IN (IF c \in KeptChars THEN <<c>> ELSE <<>>) \o NormalizeLanguage(Tail(q))

OwnKeys == {g.key : g \in generators}
FamilyOf(key) == (CHOOSE g \in generators : g.key = key).family

\* generators[lang]: an own property, else a property inherited from
\* Object.prototype (a function or object, truthy), else undefined.
\* The result names what getGenerator returns.
getGenerator(language) ==
    LET lang == NormalizeLanguage(language) IN
    IF lang \in OwnKeys THEN [kind |-> "native", family |-> FamilyOf(lang)]
    ELSE IF lang \in ObjectPrototypeKeys THEN [kind |-> "inherited", family |-> "none"]
    ELSE [kind |-> "generic", family |-> "none"]

\* lang in generators: own or inherited.
hasNativeSupport(language) ==
    LET lang == NormalizeLanguage(language) IN
    lang \in OwnKeys \/ lang \in ObjectPrototypeKeys

NoOutput ==
    [threw |-> FALSE, called |-> FALSE, generator |-> "none", mode |-> "none",
     files |-> <<>>, entryPoint |-> "", stdin |-> [Blank EXCEPT !.t = "j:null"]]

\* A variant of the next definition that drops the expected value.
StdinTestCaseCallOnly(tc) ==
    VObj(<<Entry("call", tc.call)>>)

\* The {call, expected} object the fallback builds for one test case.
StdinTestCase(tc) ==
    VObj(<<Entry("call", tc.call), Entry("expected", tc.expected)>>)

\* GenericGenerator.generateRunner: userFiles[0].name throws a TypeError on an
\* empty files array.
GenericGenerateRunner(userFiles, testCases) ==
    IF userFiles = <<>>
    THEN [NoOutput EXCEPT !.threw = TRUE, !.called = TRUE, !.generator = "generic"]
    ELSE [threw |-> FALSE, called |-> TRUE, generator |-> "generic", mode |-> "fallback",
          files |-> userFiles,
          entryPoint |-> userFiles[1].name,
          stdin |-> JsonStringify(VArr(MapSeq(StdinTestCase, testCases)))]

\* The generators whose generateRunner reads tc.parsed of every test case
\* (callToNative(tc.parsed)); the others read tc.call and tc.expected.
StructuredFamilies == {"python", "csharp"}

\* generateTestRunner: generator.generateRunner(userFiles, testCases).  A
\* value inherited from Object.prototype has no generateRunner: TypeError.
\* A native generator reads userFiles[0].name, and a structured one reads
\* tc.parsed.args of a test case that, here, has no parsed field: TypeError.
\* Of a native generator's result only the absence of mode is modelled.
generateTestRunner(language, userFiles, testCases) ==
    LET g == getGenerator(language) IN
    CASE g.kind = "generic" -> GenericGenerateRunner(userFiles, testCases)
      [] g.kind = "inherited" ->
            [NoOutput EXCEPT !.threw = TRUE, !.called = TRUE, !.generator = "inherited"]
      [] g.kind = "native" ->
            IF userFiles = <<>> \/ (g.family \in StructuredFamilies /\ testCases # <<>>)
            THEN [NoOutput EXCEPT !.threw = TRUE, !.called = TRUE, !.generator = g.family]
            ELSE [NoOutput EXCEPT !.called = TRUE, !.generator = g.family, !.mode = "native"]

UserFiles ==
    { [name |-> "solution.xyz", content |-> "some code"],
      [name |-> "util.xyz", content |-> "more code"] }

\* Two call expressions, as text.
CallF == <<"f", "(", "1", ")">>
CallG == <<"g", "(", ")">>

\* Test cases as the interface defines them: call a string, expected a JSON
\* value; the last one carries a further field, which the fallback drops.
TestCaseInputs ==
    { [call |-> VStr(CallF), expected |-> VInt(3), extra |-> FALSE],
      [call |-> VStr(CallG), expected |-> VStr(<<"a">>), extra |-> FALSE],
      [call |-> VStr(CallG), expected |-> VNull, extra |-> FALSE],
      [call |-> VStr(CallF), expected |-> VArr(<<VInt(1), VStr(<<"a">>)>>), extra |-> TRUE] }

RegistryIdle ==
    /\ gLanguage = <<>>
    /\ gFiles = <<>>
    /\ gTestCases = <<>>
    /\ gOut = NoOutput

RegistryInit ==
    /\ gLanguage \in LanguageInputs
    /\ gFiles \in SeqsOf(UserFiles, 0, MaxFiles)
    /\ gTestCases \in SeqsOf(TestCaseInputs, 0, MaxTests)
    /\ gOut = NoOutput

\* A caller invokes generateTestRunner(language, files, testCases).
GenerateTestRunner ==
    /\ ~gOut.called
    /\ gOut' = generateTestRunner(gLanguage, gFiles, gTestCases)
    /\ UNCHANGED <<gLanguage, gFiles, gTestCases>>
    /\ RegistryFrame

RegistryNext == GenerateTestRunner


(***************************************************************************)
(* The generated runners' test loops.                                     *)
(***************************************************************************)
Backends == {"javascript", "python", "ruby", "java", "csharp", "go", "cpp"}

\* What evaluating one call does: it returns a value (eq: whether the
\* comparator finds it equal to the expected value), raises a fault of the
\* class the language's usual handler names ("std": Error, Exception,
\* StandardError, std::exception, a panic value), or raises a value outside
\* that class ("nonstd": JavaScript `throw null`, C++ `throw 42`, a Java
\* Error such as StackOverflowError, a Ruby ScriptError/NotImplementedError,
\* a Python BaseException such as SystemExit).
CaseBehaviours ==
    { [fault |-> "none", eq |-> TRUE], [fault |-> "none", eq |-> FALSE],
      [fault |-> "std", eq |-> FALSE], [fault |-> "nonstd", eq |-> FALSE] }

\* The fault's kind (class name) and message, as the runtime reports them.
FaultKind == "RuntimeError"
FaultMsg == "boom"

NoError == <<>>

\* Whether the per-case handler of the backend's loop catches the fault.
\* go and csharp have no raisable value their handler misses.
Catches(backend, fault) ==
    CASE backend = "javascript" -> fault = "std"      \* catch (e) reads e.name: TypeError on null
      [] backend = "python"     -> fault = "std"      \* except Exception
      [] backend = "ruby"       -> fault = "std"      \* rescue => e  (StandardError)
      [] backend = "java"       -> fault = "std"      \* catch (Exception e)
      [] backend = "csharp"     -> TRUE               \* catch (Exception e)
      [] backend = "go"         -> TRUE               \* recover()
      [] backend = "cpp"        -> fault = "std"      \* catch (const std::exception& e)

\* The error text the handler records, as a sequence of its parts.
ErrorText(backend) ==
    CASE backend = "javascript" -> <<FaultKind, ": ", FaultMsg>>  \* e.name + ': ' + e.message
      [] backend = "python"     -> <<FaultKind, ": ", FaultMsg>>  \* f"{type(e).__name__}: {str(e)}"
      [] backend = "ruby"       -> <<FaultKind, ": ", FaultMsg>>  \* "#{e.class}: #{e.message}"
      [] backend = "java"       -> <<FaultKind, ": ", FaultMsg>>  \* getSimpleName() + ": " + getMessage()
      [] backend = "csharp"     -> <<FaultKind, ": ", FaultMsg>>  \* GetType().Name + ": " + Message
      [] backend = "go"         -> <<FaultMsg>>                   \* fmt.Sprintf("%v", r)
      [] backend = "cpp"        -> <<FaultMsg>>                   \* e.what()

\* The result the loop body appends for case number i (0-based index i).
CaseResult(backend, i, c) ==
    IF c.fault = "none"
    THEN [index |-> i, passed |-> c.eq, error |-> NoError]
    ELSE [index |-> i, passed |-> FALSE, error |-> ErrorText(backend)]

RunnerIdle ==
    /\ rBackend = "javascript"
    /\ rCases = <<>>
    /\ rIdx = 0
    /\ rResults = <<>>
    /\ rStatus = "idle"

RunnerInit ==
    /\ rBackend \in Backends
    /\ rCases \in SeqsOf(CaseBehaviours, 1, MaxCases)
    /\ rIdx = 0
    /\ rResults = <<>>
    /\ rStatus = "running"

\* One iteration of the loop: the call is evaluated inside the per-case handler.
RunCase ==
    /\ rStatus = "running"
    /\ rIdx < Len(rCases)
    /\ LET c == rCases[rIdx + 1] IN
       /\ c.fault = "none" \/ Catches(rBackend, c.fault)
       /\ rResults' = Append(rResults, CaseResult(rBackend, rIdx, c))
       /\ rIdx' = rIdx + 1
    /\ UNCHANGED <<rBackend, rCases, rStatus>>
    /\ RunnerFrame

\* The fault escapes the per-case handler: the process dies before the single
\* write of the results at the end of the program, so nothing is emitted.
RunCaseUncaught ==
    /\ rStatus = "running"
    /\ rIdx < Len(rCases)
    /\ LET c == rCases[rIdx + 1] IN
       /\ c.fault # "none"
       /\ ~Catches(rBackend, c.fault)
    /\ rStatus' = "aborted"
    /\ rResults' = <<>>
    /\ UNCHANGED <<rBackend, rCases, rIdx>>
    /\ RunnerFrame

\* After the loop the results are written to stdout as one JSON array.
EmitResults ==
    /\ rStatus = "running"
    /\ rIdx = Len(rCases)
    /\ rStatus' = "done"
    /\ UNCHANGED <<rBackend, rCases, rIdx, rResults>>
    /\ RunnerFrame

RunnerNext == RunCase \/ RunCaseUncaught \/ EmitResults

(***************************************************************************)
(* The /testCompile handler.                                               *)
(***************************************************************************)
\* config.max_test_cases of the deployment the model describes.
max_test_cases == 2
MaxReqCases == 3

\* String.prototype.trim on a sequence of characters.
IsSpace(c) == c \in {" ", "\n", "\t"}
RECURSIVE TrimLeft(_)
TrimLeft(q) == IF q # <<>> /\ IsSpace(Head(q)) THEN TrimLeft(Tail(q)) ELSE q
RECURSIVE TrimRight(_)
TrimRight(q) ==
    IF q # <<>> /\ IsSpace(q[Len(q)]) THEN TrimRight(SubSeq(q, 1, Len(q) - 1)) ELSE q
Trim(q) == TrimRight(TrimLeft(q))

\* The elements a request's test_cases array may hold: two valid ones, one
\* whose call is a number, one whose call is missing, one whose call is
\* blank, one without an expected field.
TcValid1 == [call |-> VStr(CallF), hasExpected |-> TRUE, expected |-> VInt(1)]
TcValid2 == [call |-> VStr(CallG), hasExpected |-> TRUE, expected |-> VStr(<<"a">>)]
TcCallNumber == [call |-> VInt(5), hasExpected |-> TRUE, expected |-> VInt(1)]
TcCallBlank == [call |-> VStr(<<" ", "\t">>), hasExpected |-> TRUE, expected |-> VInt(1)]
TcNoExpected == [call |-> VStr(CallF), hasExpected |-> FALSE, expected |-> VUndef]
TcElements == {TcValid1, TcValid2, TcCallNumber, TcCallBlank, TcNoExpected}

\* req.body.test_cases: absent, a value that is not an array, or an array.
TestCasesBodies ==
    {[kind |-> "missing", items |-> <<>>], [kind |-> "notarray", items |-> <<>>]}
    \cup {[kind |-> "array", items |-> q] : q \in SeqsOf(TcElements, 0, MaxReqCases)}

NoFailure == [msg |-> "", at |-> -1]

\* A variant of the next definition that checks the first element only.
ValidateItemsFirstOnly(items, i) ==
    IF Len(items) = 0 THEN NoFailure
    ELSE LET tc == items[1] IN
         IF tc.call.t # "str" THEN [msg |-> "call must be a string", at |-> 0]
         ELSE IF Trim(tc.call.s) = <<>> THEN [msg |-> "call cannot be empty", at |-> 0]
         ELSE IF ~tc.hasExpected THEN [msg |-> "expected is required", at |-> 0]
         ELSE NoFailure

RECURSIVE ValidateItems(_, _)
\* The loop of validate_test_cases from element i (0-based) on: the first
\* failing check of the first failing element, or NoFailure.
ValidateItems(items, i) ==
    IF i >= Len(items) THEN NoFailure
    ELSE LET tc == items[i + 1] IN
         IF tc.call.t # "str" THEN [msg |-> "call must be a string", at |-> i]
         ELSE IF Trim(tc.call.s) = <<>> THEN [msg |-> "call cannot be empty", at |-> i]
         ELSE IF ~tc.hasExpected THEN [msg |-> "expected is required", at |-> i]
         ELSE ValidateItems(items, i + 1)

\* validate_test_cases: the thrown message, or NoFailure when it returns.
validate_test_cases(body) ==
    IF body.kind # "array" THEN [msg |-> "test_cases is required as an array", at |-> -1]
    ELSE IF Len(body.items) = 0
    THEN [msg |-> "test_cases must be a non-empty array", at |-> -1]
    ELSE IF max_test_cases > 0 /\ Len(body.items) > max_test_cases
    THEN [msg |-> "test_cases cannot exceed max_test_cases items", at |-> -1]
    ELSE ValidateItems(body.items, 0)

(* The runner's stdout, as a sequence of chunks: white space, other text   *)
(* that is no JSON, the brackets and comma of an array, or a complete JSON *)
(* value (v).                                                              *)
Chunk(c) == [c |-> c, v |-> VNull]
ValChunk(v) == [c |-> "val", v |-> v]

Outcome(i, actual, passed) ==
    VObj(<<Entry("index", VInt(i)), Entry("actual", actual), Entry("passed", VBool(passed))>>)
OutcomeError(i, e) ==
    VObj(<<Entry("index", VInt(i)), Entry("actual", VNull), Entry("passed", VBool(FALSE)),
           Entry("error", VStr(e))>>)

\* An array cut off after its first element, and a well-formed array of
\* three outcomes that all claim a pass.
StdoutTruncated == <<Chunk("lb"), ValChunk(Outcome(0, VInt(1), TRUE)), Chunk("comma")>>
StdoutThreePasses ==
    <<Chunk("lb"), ValChunk(Outcome(0, VInt(1), TRUE)), Chunk("comma"),
      ValChunk(Outcome(1, VStr(<<"a">>), TRUE)), Chunk("comma"),
      ValChunk(Outcome(2, VInt(1), TRUE)), Chunk("rb")>>

StdoutInputs ==
    { <<>>,
      <<Chunk("ws"), Chunk("ws")>>,
      <<Chunk("text")>>,
      <<Chunk("text"), Chunk("ws"), Chunk("lb"), ValChunk(Outcome(0, VInt(1), TRUE)), Chunk("rb")>>,
      StdoutTruncated,
      <<ValChunk(Outcome(0, VInt(1), TRUE)), Chunk("ws")>>,
      <<ValChunk(VInt(7))>>,
      <<Chunk("lb"), Chunk("rb")>>,
      <<Chunk("lb"), ValChunk(VNull), Chunk("rb")>>,
      <<Chunk("lb"), ValChunk(Outcome(0, VInt(1), TRUE)), Chunk("rb"), Chunk("ws")>>,
      <<Chunk("ws"), Chunk("lb"), ValChunk(Outcome(0, VInt(1), TRUE)), Chunk("comma"),
        Chunk("ws"), ValChunk(Outcome(1, VStr(<<"b">>), FALSE)), Chunk("rb")>>,
      <<Chunk("lb"), ValChunk(Outcome(0, VInt(2), FALSE)), Chunk("comma"),
        ValChunk(OutcomeError(1, <<"RuntimeError", ": ", "boom">>)), Chunk("rb")>>,
      StdoutThreePasses }

IsWs(ch) == ch.c = "ws"
NotWs(ch) == ch.c # "ws"
RECURSIVE TrimLeftChunks(_)
TrimLeftChunks(q) == IF q # <<>> /\ IsWs(Head(q)) THEN TrimLeftChunks(Tail(q)) ELSE q
RECURSIVE TrimRightChunks(_)
TrimRightChunks(q) ==
    IF q # <<>> /\ IsWs(q[Len(q)]) THEN TrimRightChunks(SubSeq(q, 1, Len(q) - 1)) ELSE q
\* stdout.trim()
TrimChunks(q) == TrimRightChunks(TrimLeftChunks(q))

ParseFail(what) == [ok |-> FALSE, isArray |-> FALSE, elems |-> <<>>, value |-> VNull, err |-> what]
ParseArray(elems) == [ok |-> TRUE, isArray |-> TRUE, elems |-> elems, value |-> VNull, err |-> ""]
ParseValue(v) == [ok |-> TRUE, isArray |-> FALSE, elems |-> <<>>, value |-> v, err |-> ""]

RECURSIVE ParseItems(_, _)
\* The elements of an array after "[" or ",": value, then "," or "]".
ParseItems(q, acc) ==
    IF q = <<>> THEN ParseFail("Unexpected end of JSON input")
    ELSE IF Head(q).c # "val" THEN ParseFail("Unexpected token")
    ELSE LET r == Tail(q) IN
         IF r = <<>> THEN ParseFail("Unexpected end of JSON input")
         ELSE IF Head(r).c = "rb"
         THEN IF Tail(r) = <<>> THEN ParseArray(Append(acc, Head(q).v))
              ELSE ParseFail("Unexpected token")
         ELSE IF Head(r).c = "comma" THEN ParseItems(Tail(r), Append(acc, Head(q).v))
         ELSE ParseFail("Unexpected token")

\* JSON.parse of the trimmed (non-empty) output; white space between the
\* tokens is skipped.
JsonParseOutput(trimmed) ==
    LET q == SelectEntries(NotWs, trimmed) IN
    IF Head(q).c = "val"
    THEN IF Tail(q) = <<>> THEN ParseValue(Head(q).v) ELSE ParseFail("Unexpected token")
    ELSE IF Head(q).c = "lb"
    THEN IF Len(q) = 2 /\ q[2].c = "rb" THEN ParseArray(<<>>) ELSE ParseItems(Tail(q), <<>>)
    ELSE ParseFail("Unexpected token")

\* obj[key] for a parsed JSON value: undefined unless obj is an object with
\* that key.
RECURSIVE Lookup(_, _)
Lookup(entries, key) ==
    IF entries = <<>> THEN VUndef
    ELSE IF Head(entries).key = key THEN Head(entries).val
    ELSE Lookup(Tail(entries), key)
Prop(v, key) == IF v.t = "obj" THEN Lookup(v.o, key) ELSE VUndef

\* JavaScript truthiness.
Truthy(v) ==
    CASE v.t \in {"undefined", "null"} -> FALSE
      [] v.t = "bool" -> v.b
      [] IsNumber(v) -> ~(v.k = "nan" \/ (v.k = "fin" /\ v.n = 0))
      [] v.t = "str" -> v.s # <<>>
      [] OTHER -> TRUE

NoStdout == [present |-> FALSE, text |-> <<>>]
EchoStdout(text) == [present |-> TRUE, text |-> text]

\* The error texts of the handler.
FallbackError(language) ==
    VStr(<<"Language '">> \o language
         \o <<"' requires fallback mode. Please check the output manually.">>)
ParseErrorText(message) == VStr(<<"Output parse error: ", message>>)

\* One element of test_results.
TestResult(index, call, expected, actual, passed, error, stdout) ==
    [index |-> index, call |-> call, expected |-> expected, actual |-> actual,
     passed |-> passed, error |-> error, stdout |-> stdout]

\* testCases.map(...) of the fallback branch and of the parse-failure branch.
FailedResults(testCases, error, text) ==
    [i \in 1..Len(testCases) |->
        TestResult(VInt(i - 1), testCases[i].call, testCases[i].expected, VNull, FALSE,
                   error, EchoStdout(text))]

\* output.map(...): r.index ?? i, testCases[i]?.call || '', r.actual,
\* r.passed === true, r.error || null.
MappedResults(testCases, output) ==
    [i \in 1..Len(output) |->
        LET r == output[i]
            idx == Prop(r, "index")
            err == Prop(r, "error")
            call == IF i <= Len(testCases) /\ Truthy(testCases[i].call)
                    THEN testCases[i].call ELSE VStr(<<>>)
            expected == IF i <= Len(testCases) THEN testCases[i].expected ELSE VUndef
        IN TestResult(IF idx.t \in {"undefined", "null"} THEN VInt(i - 1) ELSE idx,
                      call, expected, Prop(r, "actual"),
                      Prop(r, "passed") = VBool(TRUE),
                      IF Truthy(err) THEN err ELSE VNull,
                      NoStdout)]

\* A variant of the next definition that takes a JSON value that is not an
\* array as the one outcome of the batch.
ParsedResultsLoneValue(testCases, stdout) ==
    LET trimmed == TrimChunks(stdout) IN
    IF trimmed = <<>>
    THEN FailedResults(testCases, ParseErrorText("Empty output from test runner"), stdout)
    ELSE LET p == JsonParseOutput(trimmed) IN
         IF ~p.ok THEN FailedResults(testCases, ParseErrorText(p.err), stdout)
         ELSE IF ~p.isArray THEN MappedResults(testCases, <<p.value>>)
         ELSE MappedResults(testCases, p.elems)

\* The results of the non-fallback branch: the parse, with every failure
\* (empty output, a syntax error, not an array, a null element whose
\* properties are read) turned into FailedResults.
ParsedResults(testCases, stdout) ==
    LET trimmed == TrimChunks(stdout) IN
    IF trimmed = <<>>
    THEN FailedResults(testCases, ParseErrorText("Empty output from test runner"), stdout)
    ELSE LET p == JsonParseOutput(trimmed) IN
         IF ~p.ok THEN FailedResults(testCases, ParseErrorText(p.err), stdout)
         ELSE IF ~p.isArray
         THEN FailedResults(testCases, ParseErrorText("Test runner output is not an array"),
                            stdout)
         ELSE IF \E i \in 1..Len(p.elems) : p.elems[i].t = "null"
         THEN FailedResults(testCases,
                            ParseErrorText("Cannot read properties of null"), stdout)
         ELSE MappedResults(testCases, p.elems)

RECURSIVE CountPassed(_)
\* testResults.filter(r => r.passed).length
CountPassed(results) ==
    IF results = <<>> THEN 0
    ELSE (IF Head(results).passed THEN 1 ELSE 0) + CountPassed(Tail(results))

NoResponse ==
    [status |-> 0, test_results |-> <<>>,
     summary |-> [total |-> 0, passed |-> 0, failed |-> 0, error |-> ""],
     message |-> NoFailure]
Rejected(failure) == [NoResponse EXCEPT !.status = 400, !.message = failure]
ServerError ==
    [NoResponse EXCEPT !.status = 500,
                       !.message = [msg |-> "Internal server error during test execution",
                                    at |-> -1]]

\* The languages of the modelled requests: one with a native generator, one
\* without, one that names a property of Object.prototype.
HandlerLanguages ==
    { <<"n", "o", "d", "e">>, <<"r", "u", "s", "t">>,
      <<"c", "o", "n", "s", "t", "r", "u", "c", "t", "o", "r">> }

SolutionFile == [name |-> "solution.xyz", content |-> "some code"]

Requests ==
    [language : HandlerLanguages, files : {<<>>, <<SolutionFile>>},
     test_cases : TestCasesBodies]

\* execResult: the compile stage (absent, exit 0, or failed) and the run
\* stage with its stdout; a failed compile leaves no run stage.
NoExec == [compile |-> "none", hasRun |-> FALSE, stdout |-> <<>>]
ExecResults ==
    {[compile |-> "failed", hasRun |-> FALSE, stdout |-> <<>>]}
    \cup [compile : {"none", "ok"}, hasRun : {TRUE}, stdout : StdoutInputs]

\* A variant of the next definition that judges a fallback program's output.
ResponseJudgingFallback(req, runner, ex) ==
    LET testCases == req.test_cases.items
        results == ParsedResults(testCases, ex.stdout)
        passedCount == CountPassed(results)
    IN [NoResponse EXCEPT
           !.status = 200,
           !.test_results = results,
           !.summary = [total |-> Len(testCases), passed |-> passedCount,
                        failed |-> Len(testCases) - passedCount, error |-> ""]]

\* The 200 response built from execResult.
Response(req, runner, ex) ==
    LET testCases == req.test_cases.items IN
    IF ex.compile = "failed"
    THEN [NoResponse EXCEPT
             !.status = 200,
             !.summary = [total |-> Len(testCases), passed |-> 0, failed |-> 0,
                          error |-> "compilation_failed"]]
    ELSE LET results == IF runner.mode = "fallback"
                        THEN FailedResults(testCases, FallbackError(req.language), ex.stdout)
                        ELSE ParsedResults(testCases, ex.stdout)
             passedCount == CountPassed(results)
         IN [NoResponse EXCEPT
                !.status = 200,
                !.test_results = results,
                !.summary = [total |-> Len(testCases), passed |-> passedCount,
                             failed |-> Len(testCases) - passedCount, error |-> ""]]

HandlerIdle ==
    /\ hReq = <<>>
    /\ hPc = "idle"
    /\ hRunner = NoOutput
    /\ hExec = NoExec
    /\ hResp = NoResponse
    /\ hEvents = <<>>

HandlerInit ==
    /\ hReq \in Requests
    /\ hPc = "received"
    /\ hRunner = NoOutput
    /\ hExec = NoExec
    /\ hResp = NoResponse
    /\ hEvents = <<>>

\* The first try block: validate, generate, get_job; any throw is answered
\* with 400 and the handler returns.
HandleRequest ==
    /\ hPc = "received"
    /\ LET failure == validate_test_cases(hReq.test_cases)
           g == generateTestRunner(hReq.language, hReq.files, hReq.test_cases.items)
       IN IF failure # NoFailure
          THEN /\ hResp' = Rejected(failure)
               /\ hEvents' = <<"validate_test_cases">>
               /\ hPc' = "finished"
               /\ UNCHANGED hRunner
          ELSE IF g.threw
          THEN /\ hResp' = Rejected([msg |-> "TypeError", at |-> -1])
               /\ hEvents' = <<"validate_test_cases", "generateTestRunner">>
               /\ hPc' = "finished"
               /\ UNCHANGED hRunner
          ELSE \E accepted \in BOOLEAN :
               /\ hEvents' = <<"validate_test_cases", "generateTestRunner", "get_job">>
               /\ IF accepted
                  THEN hPc' = "job" /\ hRunner' = g /\ UNCHANGED hResp
                  ELSE /\ hResp' = Rejected([msg |-> "runtime is unknown", at |-> -1])
                       /\ hPc' = "finished"
                       /\ UNCHANGED hRunner
    /\ UNCHANGED <<hReq, hExec>>
    /\ HandlerFrame

\* job.prime() resolves.
Prime ==
    /\ hPc = "job"
    /\ hPc' = "primed"
    /\ hEvents' = Append(hEvents, "prime")
    /\ UNCHANGED <<hReq, hRunner, hExec, hResp>>
    /\ HandlerFrame

\* job.prime() rejects: 500, then the finally block.
PrimeFails ==
    /\ hPc = "job"
    /\ hPc' = "cleanup"
    /\ hEvents' = Append(hEvents, "prime")
    /\ hResp' = ServerError
    /\ UNCHANGED <<hReq, hRunner, hExec>>
    /\ HandlerFrame

\* job.execute(box) resolves and the response is built and sent.
Execute ==
    /\ hPc = "primed"
    /\ \E ex \in ExecResults :
         /\ hExec' = ex
         /\ hResp' = Response(hReq, hRunner, ex)
    /\ hPc' = "cleanup"
    /\ hEvents' = Append(hEvents, "execute")
    /\ UNCHANGED <<hReq, hRunner>>
    /\ HandlerFrame

\* job.execute(box) rejects: 500, then the finally block.
ExecuteFails ==
    /\ hPc = "primed"
    /\ hPc' = "cleanup"
    /\ hEvents' = Append(hEvents, "execute")
    /\ hResp' = ServerError
    /\ UNCHANGED <<hReq, hRunner, hExec>>
    /\ HandlerFrame

\* finally: job.cleanup().
Cleanup ==
    /\ hPc = "cleanup"
    /\ hPc' = "finished"
    /\ hEvents' = Append(hEvents, "cleanup")
    /\ UNCHANGED <<hReq, hRunner, hExec, hResp>>
    /\ HandlerFrame

HandlerNext == HandleRequest \/ Prime \/ PrimeFails \/ Execute \/ ExecuteFails \/ Cleanup

(***************************************************************************)
(* The Python generator's literal renderer.  The registry holds one        *)
(* PythonGenerator for the life of the process; nestingLevel is a field of *)
(* that instance.  Generated code is a sequence of text pieces.            *)
(***************************************************************************)
MaxNesting == 3

\* A value valueToCode has no branch for (typeof 'bigint').
VBigInt(i) == [Blank EXCEPT !.t = "bigint", !.n = i * Unit]

\* String(value) for the whole numbers 0..9.
Digits == <<"0", "1", "2", "3", "4", "5", "6", "7", "8", "9">>
NumberToString(v) == Digits[(v.n \div Unit) + 1]

\* PythonGenerator.numberLiteral
PyNumberLiteral(v) ==
    CASE v.k = "nan" -> <<"float(\"nan\")">>
      [] v.k = "pinf" -> <<"float(\"inf\")">>
      [] v.k = "ninf" -> <<"float(\"-inf\")">>
      [] OTHER -> <<NumberToString(v)>>

\* BaseGenerator.stringLiteral: JSON.stringify of a string none of whose
\* characters needs an escape.
StringLiteral(chars) == <<"\"">> \o chars \o <<"\"">>

Returned(code, level) == [threw |-> FALSE, code |-> code, nesting |-> level]
Threw(level) == [threw |-> TRUE, code |-> <<>>, nesting |-> level]

RECURSIVE PyValueToCode(_, _)
RECURSIVE PyArrayLiteral(_, _)
RECURSIVE PyObjectLiteral(_, _)
RECURSIVE PyMapValues(_, _)
RECURSIVE PyMapEntries(_, _)

\* arr.map(v => this.valueToCode(v)).join(', ') with nestingLevel = level at
\* its start: the joined code and the nestingLevel it leaves, or the throw.
PyMapValues(q, level) ==
    IF q = <<>> THEN Returned(<<>>, level)
    ELSE LET first == PyValueToCode(Head(q), level) IN
         IF first.threw THEN first
         ELSE LET rest == PyMapValues(Tail(q), first.nesting) IN
              IF rest.threw THEN rest
              ELSE Returned(first.code \o (IF Tail(q) = <<>> THEN <<>> ELSE <<", ">>)
                            \o rest.code, rest.nesting)

\* Object.entries(obj).map(([k, v]) => `${stringLiteral(k)}: ${valueToCode(v)}`).join(', ')
PyMapEntries(q, level) ==
    IF q = <<>> THEN Returned(<<>>, level)
    ELSE LET first == PyValueToCode(Head(q).val, level) IN
         IF first.threw THEN first
         ELSE LET rest == PyMapEntries(Tail(q), first.nesting) IN
              IF rest.threw THEN rest
              ELSE Returned(<<"\"", Head(q).key, "\"", ": ">> \o first.code
                            \o (IF Tail(q) = <<>> THEN <<>> ELSE <<", ">>)
                            \o rest.code, rest.nesting)

\* PythonGenerator.arrayLiteral: nestingLevel++, the map, nestingLevel--.
\* A throw inside the map skips the decrement.
PyArrayLiteral(arr, level) ==
    LET elements == PyMapValues(arr, level + 1) IN
    IF elements.threw THEN elements
    ELSE LET after == elements.nesting - 1 IN
         IF after > 0
         THEN Returned(<<"(">> \o elements.code
                       \o (IF Len(arr) = 1 THEN <<",)">> ELSE <<")">>), after)
         ELSE Returned(<<"[">> \o elements.code \o <<"]">>, after)

\* PythonGenerator.objectLiteral
PyObjectLiteral(entries, level) ==
    LET pairs == PyMapEntries(entries, level) IN
    IF pairs.threw THEN pairs
    ELSE Returned(<<"{">> \o pairs.code \o <<"}">>, pairs.nesting)

\* BaseGenerator.valueToCode on the PythonGenerator.
PyValueToCode(v, level) ==
    CASE v.t = "null" -> Returned(<<"None">>, level)
      [] v.t = "undefined" -> Returned(<<"None">>, level)
      [] v.t = "bool" -> Returned(IF v.b THEN <<"True">> ELSE <<"False">>, level)
      [] IsNumber(v) -> Returned(PyNumberLiteral(v), level)
      [] v.t = "str" -> Returned(StringLiteral(v.s), level)
      [] v.t = "arr" -> PyArrayLiteral(v.a, level)
      [] v.t = "obj" -> PyObjectLiteral(v.o, level)
      [] OTHER -> Threw(level)

\* BaseGenerator.callToNative on the PythonGenerator, for the function f:
\* the arguments are mapped at the current nestingLevel.
PyCallToNative(args, level) ==
    LET a == PyMapValues(args, level) IN
    IF a.threw THEN a ELSE Returned(<<"f", "(">> \o a.code \o <<")">>, a.nesting)

\* The call named by a [op, v] record, run on an instance whose nestingLevel
\* is level.
PyRun(call, level) ==
    IF call.op = "valueToCode" THEN PyValueToCode(call.v, level)
    ELSE PyCallToNative(call.v.a, level)

PyScalars == {VNull, VBool(TRUE), VInt(1), VInt(2), VNaN, VStr(<<"a">>), VBigInt(7)}
PyValues ==
    PyScalars
    \cup {VArr(q) : q \in SeqsOf(PyScalars, 0, 2)}
    \cup { VArr(<<VArr(<<VInt(1)>>)>>), VArr(<<VArr(<<VInt(1), VInt(2)>>)>>),
           VArr(<<VArr(<<VBigInt(7)>>)>>),
           VObj(<<Entry("k", VArr(<<VInt(1)>>))>>),
           VArr(<<VObj(<<Entry("k", VArr(<<VInt(1)>>))>>)>>) }
PyArgLists == {VArr(q) : q \in SeqsOf(PyScalars, 0, 2)} \cup {VArr(<<VArr(<<VInt(1)>>)>>)}

NoCall == [op |-> "none", v |-> VNull]
NoPyOut == [called |-> FALSE, threw |-> FALSE, code |-> <<>>]

PythonIdle ==
    /\ pyNesting = 0
    /\ pyArg = NoCall
    /\ pyOut = NoPyOut

\* The state after `new PythonGenerator()` in the registry.
PythonInit == PythonIdle

\* A top-level generator.valueToCode(v) on the shared instance.
ValueToCode ==
    /\ pyNesting < MaxNesting
    /\ \E v \in PyValues :
         LET call == [op |-> "valueToCode", v |-> v]
             r == PyRun(call, pyNesting)
         IN /\ pyArg' = call
            /\ pyOut' = [called |-> TRUE, threw |-> r.threw, code |-> r.code]
            /\ pyNesting' = r.nesting
    /\ PythonFrame

\* A top-level generator.callToNative({function: 'f', args}) on the shared
\* instance, as generateRunner makes for each test case.
CallToNative ==
    /\ pyNesting < MaxNesting
    /\ \E args \in PyArgLists :
         LET call == [op |-> "callToNative", v |-> args]
             r == PyRun(call, pyNesting)
         IN /\ pyArg' = call
            /\ pyOut' = [called |-> TRUE, threw |-> r.threw, code |-> r.code]
            /\ pyNesting' = r.nesting
    /\ PythonFrame

PythonNext == ValueToCode \/ CallToNative

(***************************************************************************)
(* The comparators of the generated runners.                               *)
(***************************************************************************)
\* IEEE-754 ==: NaN equals nothing, an infinity equals itself.
NumEq(a, b) ==
    /\ a.k # "nan" /\ b.k # "nan"
    /\ a.k = b.k
    /\ (a.k = "fin" => a.n = b.n)

AllPairs(Eq(_, _), p, q) == \A i \in 1..Len(p) : Eq(p[i], q[i])
KeysOf(entries) == {entries[i].key : i \in 1..Len(entries)}

(* ---- Python: deep_equals ---- *)
\* isinstance(v, (int, float)): bool is a subclass of int.
PyIsNumeric(v) == v.t \in {"bool", "int", "float"}
\* The number a Python bool, int or float compares as.
PyNumber(v) == IF v.t = "bool" THEN VInt(IF v.b THEN 1 ELSE 0) ELSE v

RECURSIVE PyDeepEquals(_, _)
PyDeepEquals(a, b) ==
    IF a.t = "null" /\ b.t = "null" THEN TRUE
    ELSE IF a.t = "null" \/ b.t = "null" THEN FALSE
    ELSE IF a.t = "float" /\ b.t = "float" /\ a.k = "nan" /\ b.k = "nan" THEN TRUE
    ELSE IF a.t # b.t
    THEN IF PyIsNumeric(a) /\ PyIsNumeric(b) THEN NumEq(PyNumber(a), PyNumber(b))
         ELSE FALSE
    ELSE CASE a.t = "arr" -> Len(a.a) = Len(b.a) /\ AllPairs(PyDeepEquals, a.a, b.a)
           [] a.t = "obj" ->
                 /\ KeysOf(a.o) = KeysOf(b.o)
                 /\ \A k \in KeysOf(a.o) : PyDeepEquals(Lookup(a.o, k), Lookup(b.o, k))
           [] IsNumber(a) -> NumEq(a, b)
           [] OTHER -> a = b

(* ---- Java: deepEquals ---- *)
RECURSIVE NatToChars(_)
\* The decimal digits of a natural number.
NatToChars(n) ==
    IF n < 10 THEN <<Digits[n + 1]>> ELSE NatToChars(n \div 10) \o <<Digits[(n % 10) + 1]>>

RECURSIVE FixedDigits(_, _)
\* The natural number f written with exactly width digits.
FixedDigits(f, width) ==
    IF width = 0 THEN <<>> ELSE FixedDigits(f \div 10, width - 1) \o <<Digits[(f % 10) + 1]>>

RECURSIVE FractionChars(_, _)
\* The digits of the fraction f / 10^width without its trailing zeros.
FractionChars(f, width) ==
    IF width > 1 /\ f % 10 = 0 THEN FractionChars(f \div 10, width - 1)
    ELSE FixedDigits(f, width)

RECURSIVE JoinChars(_, _)
JoinChars(parts, sep) ==
    IF parts = <<>> THEN <<>>
    ELSE IF Len(parts) = 1 THEN parts[1]
    ELSE parts[1] \o sep \o JoinChars(Tail(parts), sep)

RECURSIVE JavaStringValueOf(_)
\* String.valueOf(Object) for the values parseJson and a solution produce
\* (numbers not negative): Long, Double, Boolean, String, List, Map, null.
JavaStringValueOf(v) ==
    CASE v.t = "null" -> <<"n", "u", "l", "l">>
      [] v.t = "bool" -> IF v.b THEN <<"t", "r", "u", "e">> ELSE <<"f", "a", "l", "s", "e">>
      [] v.t = "int" -> NatToChars(v.n \div Unit)
      [] v.t = "float" ->
            CASE v.k = "nan" -> <<"N", "a", "N">>
              [] v.k = "pinf" -> <<"I", "n", "f", "i", "n", "i", "t", "y">>
              [] v.k = "ninf" -> <<"-", "I", "n", "f", "i", "n", "i", "t", "y">>
              [] OTHER ->
                    NatToChars(v.n \div Unit) \o <<".">>
                    \o FractionChars(v.n % Unit, 8)
      [] v.t = "str" -> v.s
      [] v.t = "arr" -> <<"[">> \o JoinChars(MapSeq(JavaStringValueOf, v.a), <<",", " ">>) \o <<"]">>
      [] v.t = "obj" ->
            LET Pair(e) == <<e.key, "=">> \o JavaStringValueOf(e.val)
            IN <<"{">> \o JoinChars(MapSeq(Pair, v.o), <<",", " ">>) \o <<"}">>

\* 0.0000001 in units of 1/Unit.
JavaTolerance == Unit \div 10000000

\* Math.abs(da - db) < 0.0000001 for doubles that are not both NaN: the
\* difference of two infinities of one sign is NaN, any other difference with
\* an infinity or a NaN is infinite or NaN, and no comparison with them holds.
JavaNumbersClose(a, b) ==
    /\ a.k = "fin" /\ b.k = "fin"
    /\ (IF a.n >= b.n THEN a.n - b.n ELSE b.n - a.n) < JavaTolerance

RECURSIVE JavaDeepEquals(_, _)
JavaDeepEquals(a, b) ==
    IF a.t = "null" /\ b.t = "null" THEN TRUE
    ELSE IF a.t = "null" \/ b.t = "null" THEN FALSE
    ELSE IF IsNumber(a) /\ IsNumber(b)
    THEN IF a.k = "nan" /\ b.k = "nan" THEN TRUE ELSE JavaNumbersClose(a, b)
    ELSE IF a.t = "arr" /\ b.t = "arr"
    THEN Len(a.a) = Len(b.a) /\ AllPairs(JavaDeepEquals, a.a, b.a)
    ELSE IF a.t = "obj" /\ b.t = "obj"
    THEN /\ Len(a.o) = Len(b.o)
         /\ \A k \in KeysOf(a.o) :
               /\ k \in KeysOf(b.o)
               /\ JavaDeepEquals(Lookup(a.o, k), Lookup(b.o, k))
    ELSE IF a.t = "str" \/ b.t = "str"
    THEN JavaStringValueOf(a) = JavaStringValueOf(b)
    ELSE a = b

(* ---- JavaScript: deepEquals ---- *)
\* typeof
JsTypeof(v) ==
    CASE v.t = "undefined" -> "undefined"
      [] v.t = "bool" -> "boolean"
      [] IsNumber(v) -> "number"
      [] v.t = "str" -> "string"
      [] OTHER -> "object"

\* A Set is a value with tag "set" and its members in a; a Map has tag "map"
\* and its entries in a, each the pair VArr(<<key, value>>).
VSet(members) == [Blank EXCEPT !.t = "set", !.a = members]
VMap(pairs) == [Blank EXCEPT !.t = "map", !.a = pairs]

\* a === b for an actual and an expected value built apart from each other:
\* two arrays, objects, Sets or Maps are never the same object.
JsStrictEquals(a, b) ==
    CASE a.t \in {"arr", "obj", "set", "map"} \/ b.t \in {"arr", "obj", "set", "map"} -> FALSE
      [] IsNumber(a) /\ IsNumber(b) -> NumEq(a, b)
      [] OTHER -> a = b

\* Set.prototype.has / Map.prototype.has of a member built apart from the
\* collection: SameValueZero, under which NaN is NaN and no two objects are
\* the same.
SameValueZero(x, y) ==
    IF IsNumber(x) /\ IsNumber(y) /\ x.k = "nan" /\ y.k = "nan" THEN TRUE
    ELSE JsStrictEquals(x, y)

RECURSIVE JsDeepEquals(_, _)
JsDeepEquals(a, b) ==
    IF JsStrictEquals(a, b) THEN TRUE
    ELSE IF IsNumber(a) /\ IsNumber(b) /\ a.k = "nan" /\ b.k = "nan" THEN TRUE
    ELSE IF a.t = "null" \/ b.t = "null" THEN FALSE
    ELSE IF a.t = "undefined" \/ b.t = "undefined" THEN FALSE
    ELSE IF JsTypeof(a) # JsTypeof(b) THEN FALSE
    ELSE IF (a.t = "arr") # (b.t = "arr") THEN FALSE
    ELSE IF a.t = "arr" THEN Len(a.a) = Len(b.a) /\ AllPairs(JsDeepEquals, a.a, b.a)
    ELSE IF (a.t = "set") # (b.t = "set") THEN FALSE
    ELSE IF a.t = "set"
    THEN /\ Len(a.a) = Len(b.a)
         /\ \A i \in 1..Len(a.a) :
               IF JsTypeof(a.a[i]) # "object" \/ a.a[i].t = "null"
               THEN \E j \in 1..Len(b.a) : SameValueZero(a.a[i], b.a[j])
               ELSE \E j \in 1..Len(b.a) : JsDeepEquals(a.a[i], b.a[j])
    ELSE IF (a.t = "map") # (b.t = "map") THEN FALSE
    ELSE IF a.t = "map"
    THEN /\ Len(a.a) = Len(b.a)
         /\ \A i \in 1..Len(a.a) :
               /\ \E j \in 1..Len(b.a) : SameValueZero(a.a[i].a[1], b.a[j].a[1])
               /\ JsDeepEquals(a.a[i].a[2],
                      b.a[CHOOSE j \in 1..Len(b.a) :
                              SameValueZero(a.a[i].a[1], b.a[j].a[1])].a[2])
    ELSE IF a.t = "obj"
    THEN /\ Len(a.o) = Len(b.o)
         /\ KeysOf(a.o) = KeysOf(b.o)
         /\ \A k \in KeysOf(a.o) : JsDeepEquals(Lookup(a.o, k), Lookup(b.o, k))
    ELSE FALSE

(* ---- C#: DeepEquals ---- *)
\* IsNumeric: the integral and floating types; bool and string are not.
CsIsNumeric(v) == v.t \in {"int", "float"}

\* Object.Equals of two distinct instances: value equality for the boxed
\* scalars and strings, reference equality for collections.
CsEquals(a, b) ==
    /\ a.t = b.t
    /\ CASE a.t = "bool" -> a.b = b.b
         [] a.t = "str" -> a.s = b.s
         [] a.t = "int" -> a.n = b.n
         [] a.t = "float" -> a.k = b.k /\ (a.k = "fin" => a.n = b.n)
         [] OTHER -> FALSE

\* The elements ((IEnumerable)v).Cast<object>().ToList() yields: the items of
\* a list, the KeyValuePair structs of a dictionary in enumeration order
\* (the order of insertion).
CsElements(v) ==
    IF v.t = "arr" THEN [i \in 1..Len(v.a) |-> [pair |-> FALSE, key |-> "", val |-> v.a[i]]]
    ELSE [i \in 1..Len(v.o) |-> [pair |-> TRUE, key |-> v.o[i].key, val |-> v.o[i].val]]

RECURSIVE CsDeepEquals(_, _)
\* DeepEquals of two elements: a KeyValuePair is neither numeric nor
\* enumerable, so it falls through to ValueType.Equals (same struct type,
\* fields Equals); a list item is compared by DeepEquals.
CsElementEquals(x, y) ==
    IF x.pair \/ y.pair
    THEN x.pair /\ y.pair /\ x.key = y.key /\ CsEquals(x.val, y.val)
    ELSE CsDeepEquals(x.val, y.val)

CsDeepEquals(a, b) ==
    IF a.t = "null" /\ b.t = "null" THEN TRUE
    ELSE IF a.t = "null" \/ b.t = "null" THEN FALSE
    ELSE IF CsIsNumeric(a) /\ CsIsNumeric(b)
    THEN IF a.k = "nan" /\ b.k = "nan" THEN TRUE ELSE NumEq(a, b)
    ELSE IF a.t \in {"arr", "obj"} /\ b.t \in {"arr", "obj"}
    THEN /\ Len(CsElements(a)) = Len(CsElements(b))
         /\ AllPairs(CsElementEquals, CsElements(a), CsElements(b))
    ELSE CsEquals(a, b)

(* ---- C++ (strict): compareResults<int>, compareResults<double> ---- *)
\* nlohmann::json is_number_integer / is_number_float of the expected value.
CppCompareInt(actual, expected) ==
    IF expected.t = "int" THEN actual.n = expected.n ELSE FALSE

CppCompareDouble(actual, expected) ==
    IF actual.k = "nan"
    THEN IF IsNumber(expected) THEN expected.k = "nan"
         ELSE expected.t = "str" /\ expected.s = <<"N", "a", "N">>
    ELSE IF actual.k \in {"pinf", "ninf"}
    THEN IF IsNumber(expected) THEN expected.k = actual.k
         ELSE /\ expected.t = "str"
              /\ \/ actual.k = "pinf" /\ expected.s = <<"I", "n", "f", "i", "n", "i", "t", "y">>
                 \/ actual.k = "ninf"
                    /\ expected.s = <<"-", "I", "n", "f", "i", "n", "i", "t", "y">>
    ELSE IF expected.t = "float" THEN actual.n = expected.n
    ELSE FALSE

\* The comparator of a backend applied to (actual, expected).
Comparator(backend, a, b) ==
    CASE backend = "python" -> PyDeepEquals(a, b)
      [] backend = "java" -> JavaDeepEquals(a, b)
      [] backend = "javascript" -> JsDeepEquals(a, b)
      [] backend = "csharp" -> CsDeepEquals(a, b)
      [] backend = "cpp" -> IF a.t = "int" THEN CppCompareInt(a, b) ELSE CppCompareDouble(a, b)

CompareScalars ==
    { VNull, VBool(TRUE), VBool(FALSE), VInt(0), VInt(1), VFloat(1), VFloatRaw(Unit + 1),
      VFloatRaw(Unit + (Unit \div 2)), VNaN, VInf, VNegInf,
      VStr(<<"1">>), VStr(<<"a">>), VStr(<<"N", "a", "N">>),
      VStr(<<"I", "n", "f", "i", "n", "i", "t", "y">>),
      VStr(<<"-", "I", "n", "f", "i", "n", "i", "t", "y">>) }
CompareValues ==
    CompareScalars
    \cup { VArr(<<>>), VArr(<<VInt(1)>>), VArr(<<VFloat(1)>>), VArr(<<VStr(<<"1">>)>>),
           VArr(<<VInf>>), VArr(<<VInt(1), VInt(0)>>), VArr(<<VInt(0), VInt(1)>>),
           VObj(<<>>), VObj(<<Entry("k", VInt(1))>>), VObj(<<Entry("k", VStr(<<"1">>))>>),
           VObj(<<Entry("k", VInt(1)), Entry("j", VInt(0))>>),
           VObj(<<Entry("j", VInt(0)), Entry("k", VInt(1))>>) }

\* A value the C# runner can hold: no undefined, no BigInt.
RECURSIVE IsCsValue(_)
IsCsValue(v) ==
    CASE v.t \in {"undefined", "bigint"} -> FALSE
      [] v.t = "arr" -> \A i \in 1..Len(v.a) : IsCsValue(v.a[i])
      [] v.t = "obj" -> \A i \in 1..Len(v.o) : IsCsValue(v.o[i].val)
      [] OTHER -> TRUE

\* A value a JSON text can denote: no NaN, no infinity.
RECURSIVE IsJson(_)
IsJson(v) ==
    CASE v.t \in {"undefined", "bigint"} -> FALSE
      [] v.t = "float" -> v.k = "fin"
      [] v.t = "arr" -> \A i \in 1..Len(v.a) : IsJson(v.a[i])
      [] v.t = "obj" -> \A i \in 1..Len(v.o) : IsJson(v.o[i].val)
      [] OTHER -> TRUE

\* The (backend, actual, expected) triples: the C++ comparators take an int
\* or a double and the parsed JSON of the expected value.
CompareInputs ==
    {<<bk, a, b>> \in {"python", "java", "javascript"} \X CompareValues \X CompareValues : TRUE}
    \cup {<<bk, a, b>> \in {"csharp"} \X CompareValues \X CompareValues :
            IsCsValue(a) /\ IsCsValue(b)}
    \cup {<<bk, a, b>> \in {"cpp"} \X CompareValues \X CompareValues :
            IsNumber(a) /\ IsJson(b)}

CompareIdle ==
    /\ cBackend = "javascript"
    /\ cA = VNull
    /\ cB = VNull
    /\ cRes = "none"

CompareInit ==
    /\ \E input \in CompareInputs :
          cBackend = input[1] /\ cA = input[2] /\ cB = input[3]
    /\ cRes = "none"

\* The runner compares the actual value with the expected one.
Compare ==
    /\ cRes = "none"
    /\ cRes' = IF Comparator(cBackend, cA, cB) THEN "eq" ELSE "ne"
    /\ UNCHANGED <<cBackend, cA, cB>>
    /\ CompareFrame

CompareNext == Compare

(***************************************************************************)
(* The strict C++ backend, from the test case to the verdict.  Two         *)
(* generators exist: one embeds the expected value in the runner's source  *)
(* ("embedded"), one hands it to the runner on stdin ("stdin").  The       *)
(* expected value is followed as text.                                     *)
(***************************************************************************)
DigitChars == {Digits[i] : i \in 1..Len(Digits)}
DigitValue(c) == (CHOOSE i \in 1..Len(Digits) : Digits[i] = c) - 1

AllDigits(q) == \A i \in 1..Len(q) : q[i] \in DigitChars

RECURSIVE CharsToNat(_)
\* The natural number a sequence of digits denotes.
CharsToNat(q) ==
    IF q = <<>> THEN 0 ELSE CharsToNat(SubSeq(q, 1, Len(q) - 1)) * 10 + DigitValue(q[Len(q)])

RECURSIVE PowerOfTen(_)
PowerOfTen(e) == IF e = 0 THEN 1 ELSE 10 * PowerOfTen(e - 1)

\* The position of the first "." of q, or 0.
DotAt(q) == IF \E i \in 1..Len(q) : q[i] = "." THEN CHOOSE i \in 1..Len(q) :
                 q[i] = "." /\ \A j \in 1..(i - 1) : q[j] # "."
            ELSE 0

\* /^-?\d+$/ for texts without a sign.
IsIntText(q) == q # <<>> /\ AllDigits(q)

\* /^-?\d*\.?\d+([eE][+-]?\d+)?$/ together with hasDecimal, for texts
\* without a sign and without an exponent: digits, a ".", at least one digit.
IsFloatText(q) ==
    LET d == DotAt(q) IN
    /\ d > 0
    /\ d < Len(q)
    /\ AllDigits(SubSeq(q, 1, d - 1))
    /\ AllDigits(SubSeq(q, d + 1, Len(q)))

\* The JSON grammar's number with a fraction: at least one digit on each
\* side of the ".".
IsJsonFloatText(q) == IsFloatText(q) /\ DotAt(q) > 1

\* The number a decimal text q (IsIntText or IsFloatText, at most 8 digits
\* of fraction) denotes, in units of 1/Unit.
DecimalUnits(q) ==
    LET d == DotAt(q) IN
    IF d = 0 THEN CharsToNat(q) * Unit
    ELSE CharsToNat(SubSeq(q, 1, d - 1)) * Unit
         + CharsToNat(SubSeq(q, d + 1, Len(q))) * PowerOfTen(8 - (Len(q) - d))

\* A JavaScript number: whole or not, it is one type.
JsNumber(units) == IF units % Unit = 0 THEN VInt(units \div Unit) ELSE VFloatRaw(units)

\* String(number) of a JavaScript number that is not negative.
JsNumberToString(v) ==
    IF v.n % Unit = 0 THEN NatToChars(v.n \div Unit)
    ELSE NatToChars(v.n \div Unit) \o <<".">> \o FractionChars(v.n % Unit, 8)

RECURSIVE EscapeQuoted(_)
\* The escapes both JSON.stringify and escapeCpp apply to a backslash and to
\* a double quote.
EscapeQuoted(q) ==
    IF q = <<>> THEN <<>>
    ELSE (IF Head(q) \in {"\\", "\""} THEN <<"\\", Head(q)>> ELSE <<Head(q)>>)
         \o EscapeQuoted(Tail(q))

RECURSIVE Unescape(_)
\* What a C++ string literal, and a JSON string, denote: a backslash makes
\* the next character literal.
Unescape(q) ==
    IF q = <<>> THEN <<>>
    ELSE IF Head(q) = "\\" /\ Len(q) >= 2 THEN <<q[2]>> \o Unescape(Tail(Tail(q)))
    ELSE <<Head(q)>> \o Unescape(Tail(q))

\* JSON.stringify of a JavaScript number or string.
JsonStringifyText(v) ==
    IF IsNumber(v) THEN JsNumberToString(v) ELSE <<"\"">> \o EscapeQuoted(v.s) \o <<"\"">>

\* The value of expected in the request's JSON body: written as a JSON
\* number it arrives as a JavaScript number, written inside a JSON string it
\* arrives as that string.
ExpectedInRequest(case) ==
    IF case.form = "number" THEN JsNumber(DecimalUnits(case.written)) ELSE VStr(case.written)

\* The embedded generator: convertCppToJson returns a number, and a string
\* that is not wrapped in braces, as it is; the text embedded is
\* escapeCpp(JSON.stringify(expected)), which the C++ compiler unescapes.
EmbeddedWire(case) ==
    Unescape(EscapeQuoted(JsonStringifyText(ExpectedInRequest(case))))

\* The stdin generator: parseExpectedValue keeps a non-string; of a string it
\* takes, trimmed, an integer text by parseInt, a float text as a wrapper
\* that keeps the original text, anything else as the string itself;
\* serializeExpectedForStdin writes the wrapper's original text raw.
StdinWire(case) ==
    LET e == ExpectedInRequest(case) IN
    IF e.t # "str" THEN JsonStringifyText(e)
    ELSE LET trimmed == Trim(e.s) IN
         IF IsIntText(trimmed) THEN JsNumberToString(JsNumber(DecimalUnits(trimmed)))
         ELSE IF IsFloatText(trimmed) THEN trimmed
         ELSE JsonStringifyText(e)

\* nlohmann json::parse of the text: a string, an integer, a float, or a
\* parse_error.
CppJsonParse(q) ==
    IF Len(q) >= 2 /\ q[1] = "\"" /\ q[Len(q)] = "\""
    THEN [ok |-> TRUE, v |-> VStr(Unescape(SubSeq(q, 2, Len(q) - 1)))]
    ELSE IF IsIntText(q) THEN [ok |-> TRUE, v |-> VInt(CharsToNat(q))]
    ELSE IF IsJsonFloatText(q) THEN [ok |-> TRUE, v |-> VFloatRaw(DecimalUnits(q))]
    ELSE [ok |-> FALSE, v |-> VNull]

\* The outcome of the case in the runner.  The embedded runner parses inside
\* the case's try block, so a parse_error becomes the case's error; the
\* stdin runner parses every line in main before any case runs, outside any
\* try block, so a parse_error ends the process without output.
CppVerdict(backend, actual, wire) ==
    LET p == CppJsonParse(wire) IN
    IF ~p.ok THEN (IF backend = "embedded" THEN "error" ELSE "crash")
    ELSE IF (IF actual.t = "int" THEN CppCompareInt(actual, p.v)
             ELSE CppCompareDouble(actual, p.v))
    THEN "pass" ELSE "fail"

\* The texts an expected value is written as, and the results of the calls.
WrittenTexts ==
    { <<"1">>, <<"1", ".", "0">>, <<"2">>, <<"1", ".", "5">>, <<"1", ".", "5", "0">>,
      <<".", "5">>, <<" ", "1", ".", "0">>, <<"x">> }
CppActuals == {VInt(1), VInt(2), VFloat(1), VFloat(2), VFloatRaw(Unit + (Unit \div 2))}
CppCases ==
    { c \in [actual : CppActuals, written : WrittenTexts, form : {"number", "string"}] :
        c.form = "number" => (IsIntText(c.written) \/ IsJsonFloatText(c.written)) }

NoCase == [actual |-> VNull, written |-> <<>>, form |-> "none"]

CppIdle ==
    /\ xBackend = "stdin"
    /\ xCase = NoCase
    /\ xPc = "idle"
    /\ xWire = <<>>
    /\ xVerdict = "none"

CppInit ==
    /\ xBackend \in {"stdin", "embedded"}
    /\ xCase \in CppCases
    /\ xPc = "gen"
    /\ xWire = <<>>
    /\ xVerdict = "none"

\* generateRunner of the embedded generator.
GenerateEmbedded ==
    /\ xPc = "gen"
    /\ xBackend = "embedded"
    /\ xWire' = EmbeddedWire(xCase)
    /\ xPc' = "run"
    /\ UNCHANGED <<xBackend, xCase, xVerdict>>
    /\ CppFrame

\* generateRunner of the stdin generator.
GenerateStdin ==
    /\ xPc = "gen"
    /\ xBackend = "stdin"
    /\ xWire' = StdinWire(xCase)
    /\ xPc' = "run"
    /\ UNCHANGED <<xBackend, xCase, xVerdict>>
    /\ CppFrame

\* The compiled runner executes the case.
RunCppCase ==
    /\ xPc = "run"
    /\ xVerdict' = CppVerdict(xBackend, xCase.actual, xWire)
    /\ xPc' = "done"
    /\ UNCHANGED <<xBackend, xCase, xWire>>
    /\ CppFrame

CppNext == GenerateEmbedded \/ GenerateStdin \/ RunCppCase

(***************************************************************************)
(* The /connect websocket of v2.js: one socket, its message handler and    *)
(* its initialization timer.  An await is a point where the handler stops  *)
(* and other events run: the resumption after get_job is a microtask, so   *)
(* it runs before the timer but after the handlers of messages delivered   *)
(* in the same turn; prime, execute and cleanup resolve at any later time. *)
(***************************************************************************)
MaxMessages == 3

NewJob == [primed |-> 0, executed |-> 0, cleaned |-> 0]
OpenSocket == [open |-> TRUE, code |-> 0]
Handled(msg, arg, jobThen, close, emit) ==
    [msg |-> msg, arg |-> arg, jobThen |-> jobThen, close |-> close, emit |-> emit]

\* ws.close(code): a socket already closed keeps its first code.
Close(socket, code) == IF socket.open /\ code # 0 THEN [open |-> FALSE, code |-> code] ELSE socket

\* The messages handled so far, the timer's firing left out.
Messages(log) == SelectEntries(LAMBDA e : e.msg # "timer", log)

\* A data message with the handler's job as it is (0 is null) and the
\* message's stream, without the job check.
DataOutcomeAnyJob(job, stream) ==
    IF stream = "stdin" THEN [close |-> 0, emit |-> TRUE] ELSE [close |-> 4004, emit |-> FALSE]

\* case 'data': what is emitted on the event bus and the code passed to
\* ws.close (0: no close).
DataOutcome(job, stream) ==
    IF job # 0
    THEN IF stream = "stdin" THEN [close |-> 0, emit |-> TRUE]
         ELSE [close |-> 4004, emit |-> FALSE]
    ELSE [close |-> 4003, emit |-> FALSE]

\* case 'signal': listed is Object.values(globals.SIGNALS).includes(msg.signal).
SignalOutcome(job, listed) ==
    IF job # 0
    THEN IF listed THEN [close |-> 0, emit |-> TRUE] ELSE [close |-> 4005, emit |-> FALSE]
    ELSE [close |-> 4003, emit |-> FALSE]

ConnectIdle ==
    /\ wsJob = 0
    /\ wsJobs = <<>>
    /\ wsHandlers = <<>>
    /\ wsSocket = [open |-> FALSE, code |-> 0]
    /\ wsTimer = "fired"
    /\ wsLog = <<>>

\* A client has connected: job = null, the timer is set.
ConnectInit ==
    /\ wsJob = 0
    /\ wsJobs = <<>>
    /\ wsHandlers = <<>>
    /\ wsSocket = OpenSocket
    /\ wsTimer = "armed"
    /\ wsLog = <<>>

CanReceive == wsSocket.open /\ Len(Messages(wsLog)) < MaxMessages

\* An init message: if job is null the handler calls get_job, which makes
\* the Job (or rejects, got = 0), and stops at the await; else close 4000.
ReceiveInit ==
    /\ CanReceive
    /\ \E valid \in BOOLEAN :
         IF wsJob = 0
         THEN /\ wsJobs' = IF valid THEN Append(wsJobs, NewJob) ELSE wsJobs
              /\ wsHandlers' = Append(wsHandlers,
                     [pc |-> "awaitJob", got |-> IF valid THEN Len(wsJobs) + 1 ELSE 0,
                      failed |-> FALSE])
              /\ wsLog' = Append(wsLog, Handled("init", "", wsJob, 0, FALSE))
              /\ UNCHANGED wsSocket
         ELSE /\ wsSocket' = Close(wsSocket, 4000)
              /\ wsLog' = Append(wsLog, Handled("init", "", wsJob, 4000, FALSE))
              /\ UNCHANGED <<wsJobs, wsHandlers>>
    /\ UNCHANGED <<wsJob, wsTimer>>
    /\ ConnectFrame

\* `job = await get_job(msg)` resumes, in the order the handlers stopped:
\* a rejection is caught (error sent, close 4002); else job is assigned and
\* job.prime() is called.
ResumeGetJob ==
    /\ \E h \in 1..Len(wsHandlers) :
         /\ wsHandlers[h].pc = "awaitJob"
         /\ \A g \in 1..(h - 1) : wsHandlers[g].pc # "awaitJob"
         /\ IF wsHandlers[h].got = 0
            THEN /\ wsSocket' = Close(wsSocket, 4002)
                 /\ wsHandlers' = [wsHandlers EXCEPT ![h].pc = "done"]
                 /\ UNCHANGED <<wsJob, wsJobs>>
            ELSE /\ wsJob' = wsHandlers[h].got
                 /\ wsJobs' = [wsJobs EXCEPT ![wsHandlers[h].got].primed = @ + 1]
                 /\ wsHandlers' = [wsHandlers EXCEPT ![h].pc = "awaitPrime"]
                 /\ UNCHANGED wsSocket
    /\ UNCHANGED <<wsTimer, wsLog>>
    /\ ConnectFrame

\* job.prime() settles: resolved, the runtime is sent and job.execute is
\* called on the job the variable holds now; rejected, the finally block
\* calls job.cleanup() on it.
ResumePrime ==
    /\ \E h \in 1..Len(wsHandlers), ok \in BOOLEAN :
         /\ wsHandlers[h].pc = "awaitPrime"
         /\ IF ok
            THEN /\ wsJobs' = [wsJobs EXCEPT ![wsJob].executed = @ + 1]
                 /\ wsHandlers' = [wsHandlers EXCEPT ![h].pc = "awaitExecute"]
            ELSE /\ wsJobs' = [wsJobs EXCEPT ![wsJob].cleaned = @ + 1]
                 /\ wsHandlers' = [wsHandlers EXCEPT ![h].pc = "awaitCleanup",
                                                     ![h].failed = TRUE]
    /\ UNCHANGED <<wsJob, wsSocket, wsTimer, wsLog>>
    /\ ConnectFrame

\* job.execute settles: the finally block calls job.cleanup() on the job the
\* variable holds now.
ResumeExecute ==
    /\ \E h \in 1..Len(wsHandlers), ok \in BOOLEAN :
         /\ wsHandlers[h].pc = "awaitExecute"
         /\ wsJobs' = [wsJobs EXCEPT ![wsJob].cleaned = @ + 1]
         /\ wsHandlers' = [wsHandlers EXCEPT ![h].pc = "awaitCleanup", ![h].failed = ~ok]
    /\ UNCHANGED <<wsJob, wsSocket, wsTimer, wsLog>>
    /\ ConnectFrame

\* job.cleanup() resolves: close 4999, or after an error the outer catch
\* sends it and closes with 4002.
ResumeCleanup ==
    /\ \E h \in 1..Len(wsHandlers) :
         /\ wsHandlers[h].pc = "awaitCleanup"
         /\ wsSocket' = Close(wsSocket, IF wsHandlers[h].failed THEN 4002 ELSE 4999)
         /\ wsHandlers' = [wsHandlers EXCEPT ![h].pc = "done"]
    /\ UNCHANGED <<wsJob, wsJobs, wsTimer, wsLog>>
    /\ ConnectFrame

\* A data message.
ReceiveData ==
    /\ CanReceive
    /\ \E stream \in {"stdin", "stdout"} :
         LET r == DataOutcome(wsJob, stream) IN
         /\ wsSocket' = Close(wsSocket, r.close)
         /\ wsLog' = Append(wsLog, Handled("data", stream, wsJob, r.close, r.emit))
    /\ UNCHANGED <<wsJob, wsJobs, wsHandlers, wsTimer>>
    /\ ConnectFrame

\* A signal message.
ReceiveSignal ==
    /\ CanReceive
    /\ \E listed \in BOOLEAN :
         LET r == SignalOutcome(wsJob, listed) IN
         /\ wsSocket' = Close(wsSocket, r.close)
         /\ wsLog' = Append(wsLog, Handled("signal", IF listed THEN "listed" ELSE "unlisted", wsJob, r.close, r.emit))
    /\ UNCHANGED <<wsJob, wsJobs, wsHandlers, wsTimer>>
    /\ ConnectFrame

\* The setTimeout callback, after pending microtasks: close 4001 if job is
\* still null.
TimerFires ==
    /\ wsTimer = "armed"
    /\ \A h \in 1..Len(wsHandlers) : wsHandlers[h].pc # "awaitJob"
    /\ wsTimer' = "fired"
    /\ wsSocket' = Close(wsSocket, IF wsJob = 0 THEN 4001 ELSE 0)
    /\ wsLog' = Append(wsLog, Handled("timer", "", wsJob, IF wsJob = 0 THEN 4001 ELSE 0, FALSE))
    /\ UNCHANGED <<wsJob, wsJobs, wsHandlers>>
    /\ ConnectFrame

ConnectNext ==
    \/ ReceiveInit \/ ResumeGetJob \/ ResumePrime \/ ResumeExecute \/ ResumeCleanup
    \/ ReceiveData \/ ReceiveSignal \/ TimerFires

(***************************************************************************)
(* The function bench: the pure functions of the generators, each applied  *)
(* once to arguments drawn from a bounded set.                             *)
(***************************************************************************)
NotApplied == [done |-> FALSE]
OthersIdle ==
    /\ RegistryIdle /\ RunnerIdle /\ HandlerIdle /\ PythonIdle /\ CompareIdle /\ CppIdle
    /\ ConnectIdle

FnIdle ==
    /\ fnName = "none"
    /\ fnArg = <<>>
    /\ fnRes = NotApplied

(***************************************************************************)
(* generateRunner of the seven backends: what each does with the call     *)
(* text of a test case.  A test case is [call, expected, parsed]; parsed   *)
(* is the Invocation {function, args} when the caller attached one.        *)
(***************************************************************************)
MaxPassCases == 2

InterpretedBackends == {"python", "javascript", "ruby"}
CompiledBackends == {"java", "cpp", "go", "csharp"}

NoParsed == [present |-> FALSE, function |-> <<>>, args |-> <<>>]
Parsed(fn, args) == [present |-> TRUE, function |-> fn, args |-> args]

\* sub occurs in text (String.prototype.includes).
Contains(text, sub) ==
    \E i \in 0..(Len(text) - Len(sub)) : SubSeq(text, i + 1, i + Len(sub)) = sub

IdentChars == (DOMAIN UpperToLower) \cup (KeptChars \ {"+", "#"}) \cup {"_"}
RECURSIVE IdentThenDot(_)
IdentThenDot(q) ==
    /\ q # <<>>
    /\ \/ Head(q) = "."
       \/ Head(q) \in IdentChars /\ IdentThenDot(Tail(q))
\* /^[A-Z][a-zA-Z0-9_]*\./.test(callCode)
HasClassPrefix(callCode) ==
    /\ callCode # <<>>
    /\ Head(callCode) \in DOMAIN UpperToLower
    /\ IdentThenDot(Tail(callCode))

\* BaseGenerator.callToNative: function(arg1, arg2, ...), the arguments
\* rendered by the backend's valueToCode.
BaseCallToNative(fn, argCodes) == fn \o <<"(">> \o JoinChars(argCodes, <<",", " ">>) \o <<")">>

\* valueToCode of the C# generator for null, booleans, 32-bit integers and
\* strings without characters that need escaping.
CsValueToCode(v) ==
    CASE v.t = "null" -> <<"n", "u", "l", "l">>
      [] v.t = "bool" -> IF v.b THEN <<"t", "r", "u", "e">> ELSE <<"f", "a", "l", "s", "e">>
      [] v.t = "int" -> NatToChars(v.n \div Unit)
      [] v.t = "str" -> <<"\"">> \o v.s \o <<"\"">>

\* valueToCode of the Python generator for the same values.
PyValueCode(v) ==
    CASE v.t = "null" -> <<"N", "o", "n", "e">>
      [] v.t = "bool" -> IF v.b THEN <<"T", "r", "u", "e">> ELSE <<"F", "a", "l", "s", "e">>
      [] v.t = "int" -> NatToChars(v.n \div Unit)
      [] v.t = "str" -> <<"\"">> \o v.s \o <<"\"">>

\* The record a runner reads from stdin for one test case (javascript.js,
\* ruby.js): {call: tc.call, expected: tc.expected}.
CallExpectedRecord(tc) ==
    VObj(<<Entry("call", VStr(tc.call)), Entry("expected", tc.expected)>>)

\* python.js: {...tc, call_native: this.callToNative(tc.parsed), parsed: undefined}
PyNativeTestCase(tc) ==
    VObj(<<Entry("call", VStr(tc.call)), Entry("expected", tc.expected),
           Entry("parsed", VUndef),
           Entry("call_native",
                 VStr(BaseCallToNative(tc.parsed.function, MapSeq(PyValueCode, tc.parsed.args))))>>)

\* The statement a compiled backend's runner evaluates for one test case.
JavaCallCode(primaryClass, tc) ==
    IF primaryClass # <<>> /\ ~HasClassPrefix(tc.call)
    THEN primaryClass \o <<".">> \o tc.call
    ELSE tc.call
CsNativeCall(className, tc) ==
    className \o <<".">> \o BaseCallToNative(tc.parsed.function, MapSeq(CsValueToCode, tc.parsed.args))

RECURSIVE TestCalls(_, _)
\* testCases.map(...).join('\n'): one block per test case around its call.
TestCalls(CallCode(_), testCases) ==
    IF testCases = <<>> THEN <<>>
    ELSE <<"a", "c", "t", "u", "a", "l", " ", "=", " ">> \o CallCode(Head(testCases))
         \o <<";">> \o TestCalls(CallCode, Tail(testCases))

Generated(stdin, source) ==
    [done |-> TRUE, threw |-> FALSE, hasStdin |-> TRUE, stdin |-> stdin, source |-> source]
GeneratedSource(source) ==
    [done |-> TRUE, threw |-> FALSE, hasStdin |-> FALSE, stdin |-> JsonStringify(VNull),
     source |-> source]
GenerateThrew ==
    [done |-> TRUE, threw |-> TRUE, hasStdin |-> FALSE, stdin |-> JsonStringify(VNull),
     source |-> <<>>]

\* generateRunner(userFiles, testCases) of a backend; className is the class
\* the generator derives from userFiles[0].  tc.parsed.args of a test case
\* without parsed is a TypeError.
GenerateRunner(backend, className, testCases) ==
    LET AllParsed == \A i \in 1..Len(testCases) : testCases[i].parsed.present
        JavaCode(tc) == JavaCallCode(className, tc)
        CsCode(tc) == CsNativeCall(className, tc)
        Raw(tc) == tc.call
    IN CASE backend \in {"javascript", "ruby"} ->
               Generated(JsonStringify(VArr(MapSeq(CallExpectedRecord, testCases))), <<>>)
         [] backend = "python" ->
               IF AllParsed
               THEN Generated(JsonStringify(VArr(MapSeq(PyNativeTestCase, testCases))), <<>>)
               ELSE GenerateThrew
         [] backend = "java" -> GeneratedSource(TestCalls(JavaCode, testCases))
         [] backend \in {"cpp", "go"} -> GeneratedSource(TestCalls(Raw, testCases))
         [] backend = "csharp" ->
               IF AllParsed THEN GeneratedSource(TestCalls(CsCode, testCases))
               ELSE GenerateThrew

CallAdd == <<"a", "d", "d", "(", "1", ",", " ", "2", ")">>
CallAddTight == <<"a", "d", "d", "(", "1", ",", "2", ")">>
CallLambda == <<"(", "l", "a", "m", "b", "d", "a", ":", "5", ")", "(", ")">>
CallPrefixed == <<"S", ".", "f", "(", "1", ")">>
ParsedAdd == Parsed(<<"a", "d", "d">>, <<VInt(1), VInt(2)>>)

PassCases ==
    { [call |-> CallAdd, expected |-> VInt(3), parsed |-> NoParsed],
      [call |-> CallAdd, expected |-> VInt(3), parsed |-> ParsedAdd],
      [call |-> CallAddTight, expected |-> VInt(3), parsed |-> NoParsed],
      [call |-> CallAddTight, expected |-> VArr(<<VInt(3), VStr(<<"a">>)>>), parsed |-> ParsedAdd],
      [call |-> CallLambda, expected |-> VInt(5), parsed |-> NoParsed],
      [call |-> CallPrefixed, expected |-> VStr(<<"a">>), parsed |-> NoParsed] }

PassInit ==
    /\ fnName = "generateRunner"
    /\ \E backend \in InterpretedBackends \cup CompiledBackends,
          className \in {<<>>, <<"S">>},
          testCases \in SeqsOf(PassCases, 0, MaxPassCases) :
          fnArg = [backend |-> backend, className |-> className, testCases |-> testCases]
    /\ fnRes = NotApplied

\* The registry's generator of the backend builds the runner.
ApplyGenerateRunner ==
    /\ fnName = "generateRunner"
    /\ ~fnRes.done
    /\ fnRes' = GenerateRunner(fnArg.backend, fnArg.className, fnArg.testCases)
    /\ UNCHANGED <<fnName, fnArg>>
    /\ FnFrame

PassNext == ApplyGenerateRunner

InitPass == PassInit /\ OthersIdle
SpecPass == InitPass /\ [][PassNext]_vars

(***************************************************************************)
(* The stdin C++ backend on a list of test cases: generateRunner joins one *)
(* line per test case into stdinData, and the runner's main reads the      *)
(* lines back into expectedValues before any case runs.                    *)
(***************************************************************************)
MaxStdinCases == 2

\* stdinLines.join('\n')
StdinData(cases) == JoinChars(MapSeq(StdinWire, cases), <<"\n">>)

RECURSIVE GetLines(_)
\* The lines successive getline(cin, line) calls yield on the text.
GetLines(q) ==
    IF q = <<>> THEN <<>>
    ELSE IF \E i \in 1..Len(q) : q[i] = "\n"
    THEN LET i == CHOOSE i \in 1..Len(q) : q[i] = "\n" /\ \A j \in 1..(i - 1) : q[j] # "\n"
         IN <<SubSeq(q, 1, i - 1)>> \o GetLines(SubSeq(q, i + 1, Len(q)))
    ELSE <<q>>

NonEmptyLine(line) == line # <<>>

\* main: every non-empty line is parsed into expectedValues; a parse_error
\* is thrown outside any try block and ends the process.
ReadExpectedValues(stdin) ==
    LET lines == SelectEntries(NonEmptyLine, GetLines(stdin))
        parsed == MapSeq(CppJsonParse, lines)
        Value(r) == r.v
    IN IF \E i \in 1..Len(parsed) : ~parsed[i].ok
       THEN [done |-> TRUE, stdin |-> stdin, crashed |-> TRUE, expectedValues |-> <<>>]
       ELSE [done |-> TRUE, stdin |-> stdin, crashed |-> FALSE,
             expectedValues |-> MapSeq(Value, parsed)]

StdinCases ==
    { c \in [written : WrittenTexts, form : {"number", "string"}] :
        c.form = "number" => (IsIntText(c.written) \/ IsJsonFloatText(c.written)) }

StdinListInit ==
    /\ fnName = "stdinRunner"
    /\ fnArg \in SeqsOf(StdinCases, 0, MaxStdinCases)
    /\ fnRes = NotApplied

\* generateRunner of the stdin generator returns stdin: stdinData.
GenerateStdinData ==
    /\ fnName = "stdinRunner"
    /\ fnRes = NotApplied
    /\ fnRes' = [done |-> FALSE, stdin |-> StdinData(fnArg)]
    /\ UNCHANGED <<fnName, fnArg>>
    /\ FnFrame

\* The compiled runner starts and reads its stdin.
RunMainReadsStdin ==
    /\ fnName = "stdinRunner"
    /\ fnRes # NotApplied
    /\ ~fnRes.done
    /\ fnRes' = ReadExpectedValues(fnRes.stdin)
    /\ UNCHANGED <<fnName, fnArg>>
    /\ FnFrame

StdinListNext == GenerateStdinData \/ RunMainReadsStdin

InitStdinList == StdinListInit /\ OthersIdle
SpecStdinList == InitStdinList /\ [][StdinListNext]_vars

(***************************************************************************)
(* protectFloatLiterals and restoreFloatWrappers of the stdin C++          *)
(* generator.  A JSON text is the document it denotes; a number token      *)
(* keeps its text in s.  The scan visits the tokens in document order.     *)
(***************************************************************************)
MaxFloatElems == 2

JStr(chars) == [Blank EXCEPT !.t = "j:str", !.s = chars]
JNum(chars) == [Blank EXCEPT !.t = "j:num", !.s = chars, !.n = DecimalUnits(chars)]
JArr(docs) == [Blank EXCEPT !.t = "j:arr", !.a = docs]
JObj(entries) == [Blank EXCEPT !.t = "j:obj", !.o = entries]

\* numStr.includes('.') || /[eE]/.test(numStr)
IsFloatToken(chars) == \E i \in 1..Len(chars) : chars[i] \in {".", "e", "E"}

\* `__FLOAT_${floatIndex}__`
Placeholder(floatIndex) ==
    <<"_", "_", "F", "L", "O", "A", "T", "_">> \o NatToChars(floatIndex) \o <<"_", "_">>

RECURSIVE ProtectDoc(_, _)
RECURSIVE ProtectDocs(_, _)
RECURSIVE ProtectEntries(_, _)
\* protectFloatLiterals on the tokens of d, floatMap holding the originals
\* found so far (floatIndex = Len(floatMap)): a quoted string is copied, a
\* float token becomes the quoted placeholder, anything else is copied.
ProtectDoc(d, floatMap) ==
    CASE d.t = "j:num" /\ IsFloatToken(d.s) ->
            [modified |-> JStr(Placeholder(Len(floatMap))), floatMap |-> Append(floatMap, d.s)]
      [] d.t = "j:arr" ->
            LET r == ProtectDocs(d.a, floatMap)
            IN [modified |-> JArr(r.modified), floatMap |-> r.floatMap]
      [] d.t = "j:obj" ->
            LET r == ProtectEntries(d.o, floatMap)
            IN [modified |-> JObj(r.modified), floatMap |-> r.floatMap]
      [] OTHER -> [modified |-> d, floatMap |-> floatMap]

ProtectDocs(q, floatMap) ==
    IF q = <<>> THEN [modified |-> <<>>, floatMap |-> floatMap]
    ELSE LET first == ProtectDoc(Head(q), floatMap)
             rest == ProtectDocs(Tail(q), first.floatMap)
         IN [modified |-> <<first.modified>> \o rest.modified, floatMap |-> rest.floatMap]

ProtectEntries(q, floatMap) ==
    IF q = <<>> THEN [modified |-> <<>>, floatMap |-> floatMap]
    ELSE LET first == ProtectDoc(Head(q).val, floatMap)
             rest == ProtectEntries(Tail(q), first.floatMap)
         IN [modified |-> <<Entry(Head(q).key, first.modified)>> \o rest.modified,
             floatMap |-> rest.floatMap]

protectFloatLiterals(d) == ProtectDoc(d, <<>>)

\* { __cppFloat: true, value: parseFloat(original), original }
CppFloat(original) ==
    [Blank EXCEPT !.t = "cppFloat", !.s = original, !.n = DecimalUnits(original)]

StartsWith(q, prefix) == Len(q) >= Len(prefix) /\ SubSeq(q, 1, Len(prefix)) = prefix
EndsWith(q, suffix) ==
    Len(q) >= Len(suffix) /\ SubSeq(q, Len(q) - Len(suffix) + 1, Len(q)) = suffix

RECURSIVE restoreFloatWrappers(_, _)
\* A string that looks like a placeholder and is a key of floatMap becomes
\* the wrapper of the mapped original; arrays and objects are rebuilt.
restoreFloatWrappers(value, floatMap) ==
    IF /\ value.t = "str"
       /\ StartsWith(value.s, <<"_", "_", "F", "L", "O", "A", "T", "_">>)
       /\ EndsWith(value.s, <<"_", "_">>)
       /\ \E i \in 1..Len(floatMap) : Placeholder(i - 1) = value.s /\ floatMap[i] # <<>>
    THEN CppFloat(floatMap[CHOOSE i \in 1..Len(floatMap) : Placeholder(i - 1) = value.s])
    ELSE IF value.t = "arr"
    THEN LET Item(v) == restoreFloatWrappers(v, floatMap) IN VArr(MapSeq(Item, value.a))
    ELSE IF value.t = "obj"
    THEN LET Field(e) == Entry(e.key, restoreFloatWrappers(e.val, floatMap))
         IN VObj(MapSeq(Field, value.o))
    ELSE value

\* restoreFloatWrappers(JSON.parse(modified), floatMap)
ParseWithFloats(d) ==
    LET p == protectFloatLiterals(d) IN restoreFloatWrappers(JsonParse(p.modified), p.floatMap)

FloatLeaves ==
    { JNum(<<"1">>), JNum(<<"1", ".", "5">>), JNum(<<"2", ".", "0">>),
      JStr(<<"a">>), JStr(<<"1", ".", "5">>), JStr(Placeholder(0)), JStr(Placeholder(1)) }
FloatTexts ==
    FloatLeaves
    \cup {JArr(q) : q \in SeqsOf(FloatLeaves, 0, MaxFloatElems)}
    \cup {JArr(<<JArr(<<x>>), y>>) : x, y \in FloatLeaves}
    \cup {JObj(<<Entry("k", x), Entry("j", y)>>) : x, y \in FloatLeaves}

FloatInit ==
    /\ fnName = "parseWithFloats"
    /\ fnArg \in FloatTexts
    /\ fnRes = NotApplied

\* parseExpectedValue parses an array or object text with float protection.
ApplyParseWithFloats ==
    /\ fnName = "parseWithFloats"
    /\ ~fnRes.done
    /\ fnRes' = [done |-> TRUE, value |-> ParseWithFloats(fnArg)]
    /\ UNCHANGED <<fnName, fnArg>>
    /\ FnFrame

FloatNext == ApplyParseWithFloats

InitFloat == FloatInit /\ OthersIdle
SpecFloat == InitFloat /\ [][FloatNext]_vars

(***************************************************************************)
(* The JavaScript runner's serialize and convertExpected.                  *)
(***************************************************************************)
MaxJsElems == 2

Marker(type) == VObj(<<Entry("__type__", VStr(<<type>>))>>)
MarkerWith(type, value) == VObj(<<Entry("__type__", VStr(<<type>>)), Entry("value", value)>>)

RECURSIVE serialize(_)
serialize(value) ==
    CASE value.t = "undefined" -> Marker("undefined")
      [] value.t = "null" -> VNull
      [] IsNumber(value) ->
            IF value.k = "nan" THEN MarkerWith("number", VStr(<<"NaN">>))
            ELSE IF value.k = "pinf" THEN MarkerWith("number", VStr(<<"Infinity">>))
            ELSE IF value.k = "ninf" THEN MarkerWith("number", VStr(<<"-Infinity">>))
            ELSE value
      [] value.t \in {"bool", "str"} -> value
      [] value.t = "arr" -> VArr(MapSeq(serialize, value.a))
      [] value.t = "map" ->
            LET Pair(p) == VArr(<<serialize(p.a[1]), serialize(p.a[2])>>)
            IN MarkerWith("Map", VArr(MapSeq(Pair, value.a)))
      [] value.t = "set" -> MarkerWith("Set", VArr(MapSeq(serialize, value.a)))
      [] value.t = "obj" -> LET Field(e) == Entry(e.key, serialize(e.val))
                            IN VObj(MapSeq(Field, value.o))

RECURSIVE NewSet(_)
\* new Set(iterable): a member already present (SameValueZero) is not added.
NewSet(q) ==
    IF q = <<>> THEN <<>>
    ELSE LET front == NewSet(SubSeq(q, 1, Len(q) - 1))
             last == q[Len(q)]
         IN IF \E i \in 1..Len(front) : SameValueZero(front[i], last) THEN front
            ELSE Append(front, last)

RECURSIVE NewMap(_)
\* new Map(entries): a key already present keeps its place and takes the
\* later value.
NewMap(q) ==
    IF q = <<>> THEN <<>>
    ELSE LET front == NewMap(SubSeq(q, 1, Len(q) - 1))
             last == q[Len(q)]
         IN IF \E i \in 1..Len(front) : SameValueZero(front[i].a[1], last.a[1])
            THEN [i \in 1..Len(front) |->
                    IF SameValueZero(front[i].a[1], last.a[1]) THEN last ELSE front[i]]
            ELSE Append(front, last)

ConvertThrew == [Blank EXCEPT !.t = "TypeError"]

RECURSIVE convertExpected(_)
\* val.value.map(...) on a value that is not an array, and destructuring a
\* Map entry that is not an array, throw a TypeError (tag "TypeError").
\* Object.entries of an array or a string lists its indices ("0", "1", ...)
\* as keys, counted from Digits[1].
convertExpected(val) ==
    LET t == Lookup(val.o, "__type__")
        value == Lookup(val.o, "value")
        Pair(p) == VArr(<<convertExpected(p.a[1]), convertExpected(p.a[2])>>)
        Field(e) == Entry(e.key, convertExpected(e.val))
        Is(name) == t = VStr(<<name>>)
    IN
    IF val.t = "null" THEN VNull
    ELSE IF val.t = "undefined" THEN VUndef
    ELSE IF val.t = "obj" /\ "__type__" \in KeysOf(val.o) /\ Is("undefined") THEN VUndef
    ELSE IF val.t = "obj" /\ "__type__" \in KeysOf(val.o) /\ Is("number")
    THEN CASE value = VStr(<<"NaN">>) -> VNaN
           [] value = VStr(<<"Infinity">>) -> VInf
           [] value = VStr(<<"-Infinity">>) -> VNegInf
           [] OTHER -> value
    ELSE IF val.t = "obj" /\ "__type__" \in KeysOf(val.o) /\ Is("tuple")
    THEN IF value.t = "arr" THEN VArr(MapSeq(convertExpected, value.a)) ELSE ConvertThrew
    ELSE IF val.t = "obj" /\ "__type__" \in KeysOf(val.o) /\ (Is("set") \/ Is("Set"))
    THEN IF value.t = "arr" THEN VSet(NewSet(MapSeq(convertExpected, value.a)))
         ELSE ConvertThrew
    ELSE IF val.t = "obj" /\ "__type__" \in KeysOf(val.o) /\ (Is("map") \/ Is("Map"))
    THEN IF value.t = "arr" /\ \A i \in 1..Len(value.a) :
                                  value.a[i].t = "arr" /\ Len(value.a[i].a) >= 2
         THEN VMap(NewMap(MapSeq(Pair, value.a)))
         ELSE ConvertThrew
    ELSE IF val.t = "obj" /\ "__type__" \in KeysOf(val.o) /\ (Is("int") \/ Is("float"))
    THEN value
    ELSE IF val.t = "obj" /\ "__type__" \in KeysOf(val.o) /\ Is("dict")
    THEN CASE value.t = "obj" -> VObj(MapSeq(Field, value.o))
           [] value.t \in {"null", "undefined"} -> ConvertThrew
           [] value.t = "arr" ->
                 VObj([i \in 1..Len(value.a) |-> Entry(Digits[i], convertExpected(value.a[i]))])
           [] value.t = "str" ->
                 VObj([i \in 1..Len(value.s) |-> Entry(Digits[i], VStr(<<value.s[i]>>))])
           [] OTHER -> VObj(<<>>)
    ELSE IF val.t = "obj" THEN VObj(MapSeq(Field, val.o))
    ELSE IF val.t = "arr" THEN VArr(MapSeq(convertExpected, val.a))
    ELSE val

\* convertExpected(JSON.parse(JSON.stringify(serialize(v))))
SerializeRoundTrip(v) == convertExpected(JsonParse(JsonStringify(serialize(v))))

JsScalars ==
    { VNull, VUndef, VBool(TRUE), VInt(1), VFloatRaw(Unit + (Unit \div 2)),
      VNaN, VInf, VNegInf, VStr(<<"a">>) }
JsMembers == JsScalars \cup {VArr(<<VInt(1)>>), VObj(<<Entry("k", VInt(1))>>)}
JsValues ==
    JsScalars
    \cup {VArr(q) : q \in SeqsOf(JsScalars, 0, MaxJsElems)}
    \cup {VObj(<<Entry("k", x)>>) : x \in JsMembers}
    \cup {Marker("undefined"), MarkerWith("Set", VArr(<<VInt(1)>>)),
          VObj(<<Entry("__type__", VInt(1))>>)}
    \cup {VSet(q) : q \in {r \in SeqsOf(JsMembers, 0, MaxJsElems) :
                             \A i, j \in 1..Len(r) : i # j => r[i] # r[j]}}
    \cup {VMap(<<VArr(<<x, y>>)>>) : x \in JsMembers, y \in JsScalars}
    \cup {VArr(<<VSet(<<x>>), VMap(<<VArr(<<x, x>>)>>)>>) : x \in JsScalars}

SerializeInit ==
    /\ fnName = "serializeRoundTrip"
    /\ fnArg \in JsValues
    /\ fnRes = NotApplied

\* A value is serialized by one runner, travels as JSON and is converted
\* back by convertExpected.
ApplySerializeRoundTrip ==
    /\ fnName = "serializeRoundTrip"
    /\ ~fnRes.done
    /\ fnRes' = [done |-> TRUE, value |-> SerializeRoundTrip(fnArg)]
    /\ UNCHANGED <<fnName, fnArg>>
    /\ FnFrame

SerializeNext == ApplySerializeRoundTrip

InitSerialize == SerializeInit /\ OthersIdle
SpecSerialize == InitSerialize /\ [][SerializeNext]_vars

(***************************************************************************)
(* The comparators' map branches on an actual map with typed keys (a "map" *)
(* value: pairs VArr(<<key, value>>)) and an expected map decoded from     *)
(* JSON (an "obj" value: string keys).                                     *)
(***************************************************************************)
MaxMapPairs == 2

MapKeysOf(m) == {m.a[i].a[1] : i \in 1..Len(m.a)}
\* The keys of a decoded JSON object, as string values.
JsonKeysOf(obj) == {VStr(<<obj.o[i].key>>) : i \in 1..Len(obj.o)}
\* The value under a string value key (undefined when absent).
JsonGet(obj, key) == IF Len(key.s) = 1 THEN Lookup(obj.o, key.s[1]) ELSE VUndef

\* python.js deep_equals, dict branch: both are dict, so the type check
\* passes; the key sets are compared as they are (1 is not "1").
PyDictEquals(a, b) ==
    /\ MapKeysOf(a) = JsonKeysOf(b)
    /\ \A i \in 1..Len(a.a) : PyDeepEquals(a.a[i].a[2], JsonGet(b, a.a[i].a[1]))

\* java.js deepEquals, map branch: the value is looked up under the key and
\* then under String.valueOf(key); a key absent in both forms ends it.
JavaMapEquals(a, b) ==
    /\ Len(a.a) = Len(b.o)
    /\ \A i \in 1..Len(a.a) :
          LET key == a.a[i].a[1]
              keyStr == VStr(JavaStringValueOf(key))
              containsKey == key \in JsonKeysOf(b)
              containsKeyStr == keyStr \in JsonKeysOf(b)
              found == IF containsKey THEN JsonGet(b, key) ELSE JsonGet(b, keyStr)
              vb == IF found.t = "undefined" THEN VNull ELSE found
          IN /\ ~(vb.t = "null" /\ ~containsKey /\ ~containsKeyStr)
             /\ JavaDeepEquals(a.a[i].a[2], vb)

\* csharp.js DeepEquals: two dictionaries enter the IEnumerable branch and
\* are compared entry by entry in enumeration order; entries whose key types
\* differ are of different struct types and never Equal.
CsDictionaryEquals(a, b) ==
    /\ Len(a.a) = Len(b.o)
    /\ \A i \in 1..Len(a.a) :
          /\ CsEquals(a.a[i].a[1], VStr(<<b.o[i].key>>))
          /\ CsEquals(a.a[i].a[2], b.o[i].val)

\* The comparator of a backend on (actual map, expected object).
MapComparator(backend, a, b) ==
    CASE backend = "python" -> PyDictEquals(a, b)
      [] backend = "java" -> JavaMapEquals(a, b)
      [] backend = "csharp" -> CsDictionaryEquals(a, b)
      [] backend = "javascript" -> JsDeepEquals(a, b)

MapKeyInputs == {VInt(1), VInt(2), VStr(<<"1">>), VStr(<<"k">>)}
MapValueInputs == {VStr(<<"a">>), VInt(7)}
ActualMaps ==
    { VMap(q) : q \in { r \in SeqsOf({VArr(<<k, v>>) : k \in MapKeyInputs, v \in MapValueInputs},
                                      1, MaxMapPairs) :
                          \A i, j \in 1..Len(r) : i # j => r[i].a[1] # r[j].a[1] } }
ExpectedMaps ==
    { VObj(q) : q \in { r \in SeqsOf({Entry(k, v) : k \in {"1", "2", "k"}, v \in MapValueInputs},
                                      1, MaxMapPairs) :
                          \A i, j \in 1..Len(r) : i # j => r[i].key # r[j].key } }

KeyedMapsInit ==
    /\ fnName = "compareMaps"
    /\ \E backend \in {"python", "java", "csharp", "javascript"},
          a \in ActualMaps, b \in ExpectedMaps :
          fnArg = [backend |-> backend, actual |-> a, expected |-> b]
    /\ fnRes = NotApplied

\* The runner compares the map a call returned with the decoded expected map.
ApplyMapComparator ==
    /\ fnName = "compareMaps"
    /\ ~fnRes.done
    /\ fnRes' = [done |-> TRUE,
                 equal |-> MapComparator(fnArg.backend, fnArg.actual, fnArg.expected)]
    /\ UNCHANGED <<fnName, fnArg>>
    /\ FnFrame

KeyedMapsNext == ApplyMapComparator

InitKeyedMaps == KeyedMapsInit /\ OthersIdle
SpecKeyedMaps == InitKeyedMaps /\ [][KeyedMapsNext]_vars

(***************************************************************************)
(* convertPythonTuplesToArrays: the scan over the call text, one character *)
(* per step.  fnRes holds the loop's variables.                            *)
(***************************************************************************)
CharAt(str, i) == IF i >= 1 /\ i <= Len(str) THEN str[i] ELSE ""

\* let j = i - 1; while (j >= 0 && /\s/.test(str[j])) j--;  (positions from 1)
LastNonSpaceBefore(str, i) ==
    IF \E j \in 1..(i - 1) : ~IsSpace(str[j])
    THEN CHOOSE j \in 1..(i - 1) : ~IsSpace(str[j]) /\ \A k \in (j + 1)..(i - 1) : IsSpace(str[k])
    ELSE 0

\* j >= 0 && /[a-zA-Z0-9_\)]/.test(str[j])
LooksLikeCall(str, i) ==
    LET j == LastNonSpaceBefore(str, i) IN j > 0 /\ str[j] \in IdentChars \cup {")"}

ScanStart ==
    [done |-> FALSE, i |-> 1, inString |-> FALSE, stringChar |-> "", stack |-> <<>>,
     result |-> <<>>]

Scanning == fnName = "convertTuples" /\ ~fnRes.done /\ fnRes.i <= Len(fnArg)
AtQuote ==
    /\ CharAt(fnArg, fnRes.i) \in {"\"", "'"}
    /\ CharAt(fnArg, fnRes.i - 1) # "\\"
Advance(res, char) == [res EXCEPT !.i = @ + 1, !.result = Append(@, char)]

\* A quote not preceded by a backslash opens a string or closes the one
\* opened by the same quote character.
ScanQuote ==
    /\ Scanning
    /\ AtQuote
    /\ LET char == fnArg[fnRes.i]
           next == IF ~fnRes.inString
                   THEN [fnRes EXCEPT !.inString = TRUE, !.stringChar = char]
                   ELSE IF char = fnRes.stringChar THEN [fnRes EXCEPT !.inString = FALSE]
                   ELSE fnRes
       IN fnRes' = Advance(next, char)
    /\ UNCHANGED <<fnName, fnArg>>
    /\ FnFrame

ScanOpenParen ==
    /\ Scanning
    /\ ~AtQuote /\ ~fnRes.inString /\ fnArg[fnRes.i] = "("
    /\ fnRes' = IF LooksLikeCall(fnArg, fnRes.i)
                THEN Advance([fnRes EXCEPT !.stack = Append(@, "func")], "(")
                ELSE Advance([fnRes EXCEPT !.stack = Append(@, "tuple")], "[")
    /\ UNCHANGED <<fnName, fnArg>>
    /\ FnFrame

\* stack.pop() of an empty stack is undefined, which is not 'func'.
ScanCloseParen ==
    /\ Scanning
    /\ ~AtQuote /\ ~fnRes.inString /\ fnArg[fnRes.i] = ")"
    /\ LET type == IF fnRes.stack = <<>> THEN "undefined" ELSE fnRes.stack[Len(fnRes.stack)]
           popped == IF fnRes.stack = <<>> THEN <<>>
                     ELSE SubSeq(fnRes.stack, 1, Len(fnRes.stack) - 1)
       IN fnRes' = Advance([fnRes EXCEPT !.stack = popped], IF type = "func" THEN ")" ELSE "]")
    /\ UNCHANGED <<fnName, fnArg>>
    /\ FnFrame

ScanOpenBracket ==
    /\ Scanning
    /\ ~AtQuote /\ ~fnRes.inString /\ fnArg[fnRes.i] = "["
    /\ fnRes' = Advance([fnRes EXCEPT !.stack = Append(@, "array")], "[")
    /\ UNCHANGED <<fnName, fnArg>>
    /\ FnFrame

ScanCloseBracket ==
    /\ Scanning
    /\ ~AtQuote /\ ~fnRes.inString /\ fnArg[fnRes.i] = "]"
    /\ LET popped == IF fnRes.stack = <<>> THEN <<>>
                     ELSE SubSeq(fnRes.stack, 1, Len(fnRes.stack) - 1)
       IN fnRes' = Advance([fnRes EXCEPT !.stack = popped], "]")
    /\ UNCHANGED <<fnName, fnArg>>
    /\ FnFrame

\* Any other character, and every character inside a string, is copied.
ScanOther ==
    /\ Scanning
    /\ ~AtQuote
    /\ fnRes.inString \/ fnArg[fnRes.i] \notin {"(", ")", "[", "]"}
    /\ fnRes' = Advance(fnRes, fnArg[fnRes.i])
    /\ UNCHANGED <<fnName, fnArg>>
    /\ FnFrame

ReturnConverted ==
    /\ fnName = "convertTuples"
    /\ ~fnRes.done
    /\ fnRes.i > Len(fnArg)
    /\ fnRes' = [fnRes EXCEPT !.done = TRUE]
    /\ UNCHANGED <<fnName, fnArg>>
    /\ FnFrame

\* Call texts: what precedes a parenthesis, and what it encloses.
TuplePrefixes ==
    { <<>>, <<"f">>, <<"f", " ">>, <<"a", "[", "0", "]">>, <<"f", "(", "1", ")">>,
      <<"g", "(">>, <<"[">> }
TupleInners ==
    { <<"1">>, <<"(", "1", ",", "2", ")">>, <<"\"", "(", "\"">>, <<"'", ")", "'">>,
      <<"[", "1", "]">>, <<>> }
\* The text a prefix still needs after the parenthesis to be balanced.
TupleSuffix(prefix) ==
    CASE prefix = <<"g", "(">> -> <<")">>
      [] prefix = <<"[">> -> <<"]">>
      [] OTHER -> <<>>
CallTexts ==
    { prefix \o <<"(">> \o inner \o <<")">> \o TupleSuffix(prefix) :
        prefix \in TuplePrefixes, inner \in TupleInners }

TuplesInit ==
    /\ fnName = "convertTuples"
    /\ fnArg \in CallTexts
    /\ fnRes = ScanStart

TuplesNext ==
    \/ ScanQuote \/ ScanOpenParen \/ ScanCloseParen \/ ScanOpenBracket
    \/ ScanCloseBracket \/ ScanOther \/ ReturnConverted

InitTuples == TuplesInit /\ OthersIdle
SpecTuples == InitTuples /\ [][TuplesNext]_vars

(***************************************************************************)
(* parseCallExpression and evalASTNode.  A call text is modelled by the    *)
(* syntax tree acorn returns for it (after the tuple rewrite); a node is   *)
(* [type, name, computed, kids]: name is an identifier's name, an          *)
(* operator, or the number of expressions of a template literal; kids are  *)
(* the child nodes (of a Property: key, value; of a call: callee, then     *)
(* the arguments).                                                         *)
(***************************************************************************)
MaxArgs == 2

Node(type, name, kids) == [type |-> type, name |-> name, computed |-> FALSE, kids |-> kids]
Literal == Node("Literal", "", <<>>)
Identifier(name) == Node("Identifier", name, <<>>)
Property(key, value, computed) ==
    [type |-> "Property", name |-> "", computed |-> computed, kids |-> <<key, value>>]
CallExpression(callee, args) == Node("CallExpression", "", <<callee>> \o args)

EvalOk == [threw |-> FALSE, message |-> ""]
EvalThrew(message) == [threw |-> TRUE, message |-> message]

RECURSIVE evalASTNode(_)
RECURSIVE EvalAll(_)
RECURSIVE EvalProperties(_)
\* Whether evalASTNode(node) returns or throws, and the error's message.
evalASTNode(node) ==
    CASE node.type = "Literal" -> EvalOk
      [] node.type = "ArrayExpression" -> EvalAll(node.kids)
      [] node.type = "ObjectExpression" -> EvalProperties(node.kids)
      [] node.type = "UnaryExpression" ->
            LET argument == evalASTNode(node.kids[1]) IN
            IF argument.threw THEN argument
            ELSE IF node.name \in {"-", "+", "!", "~"} THEN EvalOk
            ELSE EvalThrew("Unsupported unary operator")
      [] node.type = "BinaryExpression" ->
            LET left == evalASTNode(node.kids[1])
                right == evalASTNode(node.kids[2])
            IN IF left.threw THEN left
               ELSE IF right.threw THEN right
               ELSE IF node.name \in {"+", "-", "*", "/", "%", "**"} THEN EvalOk
               ELSE EvalThrew("Unsupported binary operator")
      [] node.type = "Identifier" ->
            IF node.name \in {"null", "undefined", "true", "false", "Infinity", "NaN"}
            THEN EvalOk
            ELSE EvalThrew("Unknown identifier")
      [] node.type = "TemplateLiteral" ->
            IF node.name # "0"
            THEN EvalThrew("Template literals with expressions are not supported")
            ELSE EvalOk
      [] node.type = "ConditionalExpression" ->
            EvalThrew("Conditional expressions (ternary) are not supported")
      [] node.type = "CallExpression" ->
            EvalThrew("Nested function calls are not supported in arguments")
      [] OTHER -> EvalThrew("Unsupported AST node type")

\* node.elements.map(el => evalASTNode(el)): the first throw ends it.
EvalAll(nodes) ==
    IF nodes = <<>> THEN EvalOk
    ELSE LET first == evalASTNode(Head(nodes)) IN
         IF first.threw THEN first ELSE EvalAll(Tail(nodes))

\* The loop over node.properties: the key is taken from an Identifier's name
\* or a Literal's value; prop.computed is not looked at.
EvalProperties(props) ==
    IF props = <<>> THEN EvalOk
    ELSE LET prop == Head(props) IN
         IF prop.type = "SpreadElement" THEN EvalThrew("Spread elements are not supported")
         ELSE IF prop.kids[1].type \notin {"Identifier", "Literal"}
         THEN EvalThrew("Unsupported property key type")
         ELSE LET value == evalASTNode(prop.kids[2]) IN
              IF value.threw THEN value ELSE EvalProperties(Tail(props))

RECURSIVE extractMemberExpression(_)
extractMemberExpression(node) ==
    CASE node.type = "Identifier" -> EvalOk
      [] node.type = "MemberExpression" ->
            LET object == extractMemberExpression(node.kids[1]) IN
            IF object.threw THEN object
            ELSE IF node.computed THEN evalASTNode(node.kids[2])
            ELSE EvalOk
      [] OTHER -> EvalThrew("Cannot extract member expression")

\* parseCallExpression(callStr): input.kind is "nonstring" (callStr is not a
\* string), "empty" (''), "unparsable" (acorn throws) or "ast" (acorn
\* returns input.ast).
parseCallExpression(input) ==
    IF input.kind \in {"nonstring", "empty"}
    THEN EvalThrew("Call expression must be a non-empty string")
    ELSE IF input.kind = "unparsable" THEN EvalThrew("Failed to parse call expression")
    ELSE IF input.ast.type # "CallExpression" THEN EvalThrew("Expected a function call")
    ELSE LET callee == input.ast.kids[1]
             name == IF callee.type \in {"Identifier", "MemberExpression"}
                     THEN extractMemberExpression(callee)
                     ELSE EvalThrew("Unsupported callee type")
             args == EvalAll(Tail(input.ast.kids))
         IN IF name.threw THEN name
            ELSE IF args.threw THEN EvalThrew("Failed to evaluate argument")
            ELSE EvalOk

ArgLeaves ==
    { Literal, Identifier("x"), Identifier("NaN"), Identifier("undefined"),
      Node("TemplateLiteral", "0", <<>>), Node("TemplateLiteral", "1", <<Identifier("x")>>),
      Node("ConditionalExpression", "", <<Literal, Literal, Literal>>),
      CallExpression(Identifier("g"), <<>>),
      Node("SpreadElement", "", <<Identifier("x")>>) }
ArgNodes ==
    ArgLeaves
    \cup {Node("ArrayExpression", "", <<x>>) : x \in ArgLeaves}
    \cup {Node("UnaryExpression", op, <<x>>) : op \in {"-", "typeof"}, x \in {Literal, Identifier("x")}}
    \cup {Node("BinaryExpression", op, <<Literal, x>>) :
            op \in {"+", "=="}, x \in {Literal, CallExpression(Identifier("g"), <<>>)}}
    \cup {Node("ObjectExpression", "", <<Property(Identifier("k"), x, FALSE)>>) : x \in ArgLeaves}
    \cup {Node("ObjectExpression", "", <<Property(key, Literal, TRUE)>>) :
            key \in {Identifier("x"), Literal, CallExpression(Identifier("g"), <<>>),
                     Node("TemplateLiteral", "1", <<Identifier("x")>>)}}
    \cup {Node("ObjectExpression", "", <<Node("SpreadElement", "", <<Identifier("x")>>)>>)}
Callees ==
    { Identifier("f"),
      [type |-> "MemberExpression", name |-> "", computed |-> FALSE,
       kids |-> <<Identifier("obj"), Identifier("method")>>],
      CallExpression(Identifier("f"), <<>>) }
ParserInputs ==
    { [kind |-> k, ast |-> Literal] : k \in {"nonstring", "empty", "unparsable"} }
    \cup { [kind |-> "ast", ast |-> root] : root \in {Literal, Identifier("not")} }
    \cup { [kind |-> "ast", ast |-> CallExpression(callee, args)] :
             callee \in Callees, args \in SeqsOf(ArgNodes, 0, MaxArgs) }

ParserInit ==
    /\ fnName = "parseCallExpression"
    /\ fnArg \in ParserInputs
    /\ fnRes = NotApplied

\* A caller parses a call text.
ApplyParseCallExpression ==
    /\ fnName = "parseCallExpression"
    /\ ~fnRes.done
    /\ fnRes' = [done |-> TRUE, out |-> parseCallExpression(fnArg)]
    /\ UNCHANGED <<fnName, fnArg>>
    /\ FnFrame

ParserNext == ApplyParseCallExpression

InitParser == ParserInit /\ OthersIdle
SpecParser == InitParser /\ [][ParserNext]_vars

(***************************************************************************)
(* The expected value embedded as an escaped literal in generated source   *)
(* (go.js, java.js, csharp.js, cpp.js) and decoded again when the runner   *)
(* runs.  Texts are sequences of characters; "\n" is the newline and       *)
(* "backtick" the grave accent.                                            *)
(***************************************************************************)
MaxEmbedLen == 3

RECURSIVE JsonQuoteChars(_)
\* JSON.stringify inside a string: backslash and double quote get a
\* backslash, a newline becomes backslash n.
JsonQuoteChars(q) ==
    IF q = <<>> THEN <<>>
    ELSE (CASE Head(q) \in {"\\", "\""} -> <<"\\", Head(q)>>
            [] Head(q) = "\n" -> <<"\\", "n">>
            [] OTHER -> <<Head(q)>>)
         \o JsonQuoteChars(Tail(q))

\* JSON.stringify(tc.expected) of null, a whole number that is not negative,
\* or a string.
JsonStringifyExpected(v) ==
    CASE v.t = "null" -> <<"n", "u", "l", "l">>
      [] v.t = "str" -> <<"\"">> \o JsonQuoteChars(v.s) \o <<"\"">>
      [] OTHER -> NatToChars(v.n \div Unit)

\* escapeGo, escapeJava, escapeCSharp and escapeCpp are one replace chain:
\* backslash doubled, double quote and newline written as escapes.
escapeGo(str) == JsonQuoteChars(str)

RECURSIVE StringLiteralValue(_)
\* What the compiler makes of the characters between the double quotes of a
\* Java, C# or C++ string literal.
StringLiteralValue(q) ==
    IF q = <<>> THEN <<>>
    ELSE IF Head(q) = "\\" /\ Len(q) >= 2
    THEN (IF q[2] = "n" THEN <<"\n">> ELSE <<q[2]>>) \o StringLiteralValue(Tail(Tail(q)))
    ELSE <<Head(q)>> \o StringLiteralValue(Tail(q))

DecodedValue(v) == [outcome |-> "value", v |-> v]
DecodeFailed(outcome) == [outcome |-> outcome, v |-> VNull]

RECURSIVE JsonStringBody(_)
\* The characters a JSON parser reads between the quotes of a string; <<"!">>
\* in front marks a body no JSON parser accepts (a bare quote or newline, a
\* backslash before anything but a backslash, a quote or n).
JsonStringBody(q) ==
    IF q = <<>> THEN <<>>
    ELSE IF Head(q) \in {"\"", "\n"} THEN <<"!">>
    ELSE IF Head(q) = "\\"
    THEN IF Len(q) >= 2 /\ q[2] \in {"\\", "\"", "n"}
         THEN LET rest == JsonStringBody(Tail(Tail(q))) IN
              IF rest # <<>> /\ Head(rest) = "!" THEN <<"!">>
              ELSE <<(IF q[2] = "n" THEN "\n" ELSE q[2])>> \o rest
         ELSE <<"!">>
    ELSE LET rest == JsonStringBody(Tail(q)) IN
         IF rest # <<>> /\ Head(rest) = "!" THEN <<"!">> ELSE <<Head(q)>> \o rest

\* A JSON parser (encoding/json, Newtonsoft, nlohmann) on a text.
JsonDecode(text) ==
    IF text = <<"n", "u", "l", "l">> THEN DecodedValue(VNull)
    ELSE IF IsIntText(text) THEN DecodedValue(VInt(CharsToNat(text)))
    ELSE IF Len(text) >= 2 /\ text[1] = "\"" /\ text[Len(text)] = "\""
    THEN LET body == JsonStringBody(SubSeq(text, 2, Len(text) - 1)) IN
         IF body # <<>> /\ Head(body) = "!" THEN DecodeFailed("parse error")
         ELSE DecodedValue(VStr(body))
    ELSE DecodeFailed("parse error")

RECURSIVE ReplaceAll(_, _, _)
\* Java's String.replace(target, replacement) for a target of two
\* characters: every match, left to right, without overlap.
ReplaceAll(q, target, replacement) ==
    IF Len(q) < 2 THEN q
    ELSE IF SubSeq(q, 1, 2) = target
    THEN replacement \o ReplaceAll(Tail(Tail(q)), target, replacement)
    ELSE <<Head(q)>> \o ReplaceAll(Tail(q), target, replacement)

\* The runner's own parseJson in java.js: of a quoted text, the inside with
\* backslash n, backslash quote and backslash backslash replaced in turn.
JavaParseJson(json) ==
    IF json = <<"n", "u", "l", "l">> THEN DecodedValue(VNull)
    ELSE IF Len(json) >= 1 /\ json[1] = "\"" /\ json[Len(json)] = "\""
    THEN IF Len(json) = 1 THEN DecodeFailed("throws")
         ELSE DecodedValue(VStr(
                ReplaceAll(
                  ReplaceAll(
                    ReplaceAll(SubSeq(json, 2, Len(json) - 1), <<"\\", "n">>, <<"\n">>),
                    <<"\\", "\"">>, <<"\"">>),
                  <<"\\", "\\">>, <<"\\">>)))
    ELSE IF IsIntText(json) THEN DecodedValue(VInt(CharsToNat(json)))
    ELSE DecodedValue(VStr(json))

\* The value of expected in the generated test block of a backend.  Go
\* puts the escaped text between backticks, a raw string whose backslashes
\* stay, and drops json.Unmarshal's error, leaving expected nil; a backtick
\* in the text ends the raw string early and the program does not compile.
\* Java, C# and C++ put it between double quotes.
DecodeEmbedded(backend, expected) ==
    LET expectedJson == escapeGo(JsonStringifyExpected(expected)) IN
    CASE backend = "go" ->
            IF Contains(expectedJson, <<"backtick">>) THEN DecodeFailed("compile error")
            ELSE LET decoded == JsonDecode(expectedJson) IN
                 IF decoded.outcome = "value" THEN decoded ELSE DecodeFailed("nil")
      [] backend = "java" -> JavaParseJson(StringLiteralValue(expectedJson))
      [] OTHER -> JsonDecode(StringLiteralValue(expectedJson))

EmbedBackends == {"go", "java", "csharp", "cpp"}
EmbedChars == {"a", "n", "\"", "\\", "\n", "backtick"}
EmbedValues ==
    {VNull, VInt(0), VInt(12)} \cup {VStr(q) : q \in SeqsOf(EmbedChars, 0, MaxEmbedLen)}

EmbedInit ==
    /\ fnName = "decodeEmbedded"
    /\ fnArg \in {[backend |-> b, expected |-> e] : b \in EmbedBackends, e \in EmbedValues}
    /\ fnRes = NotApplied

\* The generated program reaches the test block and decodes its literal.
ApplyDecodeEmbedded ==
    /\ fnName = "decodeEmbedded"
    /\ ~fnRes.done
    /\ fnRes' = [done |-> TRUE, out |-> DecodeEmbedded(fnArg.backend, fnArg.expected)]
    /\ UNCHANGED <<fnName, fnArg>>
    /\ FnFrame

EmbedNext == ApplyDecodeEmbedded

InitEmbed == EmbedInit /\ OthersIdle
SpecEmbed == InitEmbed /\ [][EmbedNext]_vars

(***************************************************************************)
(* The JSON decoder of the generated Java runner (parseJson, splitJson,    *)
(* findColon) on the JSON text of strings and of arrays and objects of     *)
(* strings.  In the runner's maps a key is the characters between its      *)
(* quotes.                                                                 *)
(***************************************************************************)
MaxJsonChars == 2
MaxJsonElems == 2

RECURSIVE JoinTexts(_)
\* The texts joined by commas.
JoinTexts(texts) ==
    IF texts = <<>> THEN <<>>
    ELSE IF Len(texts) = 1 THEN texts[1]
    ELSE texts[1] \o <<",">> \o JoinTexts(Tail(texts))

\* JSON.stringify of a string, or of an array or object of strings.
JsonTextOf(v) ==
    CASE v.t = "arr" ->
            <<"[">> \o JoinTexts([i \in 1..Len(v.a) |-> JsonStringifyExpected(v.a[i])]) \o <<"]">>
      [] v.t = "obj" ->
            <<"{">> \o JoinTexts([i \in 1..Len(v.o) |->
                        JsonStringifyExpected(VStr(v.o[i].key)) \o <<":">>
                        \o JsonStringifyExpected(v.o[i].val)]) \o <<"}">>
      [] OTHER -> JsonStringifyExpected(v)

\* The inString flag after the character at i: a double quote toggles it
\* unless the character before it is a backslash.
ToggleInString(json, i, inString) ==
    IF json[i] = "\"" /\ (i = 1 \/ json[i - 1] # "\\") THEN ~inString ELSE inString

RECURSIVE SplitJsonFrom(_, _, _, _, _)
\* The loop of splitJson from position i on, and the piece added after it.
SplitJsonFrom(json, i, depth, start, inString) ==
    IF i > Len(json)
    THEN IF start <= Len(json) THEN <<Trim(SubSeq(json, start, Len(json)))>> ELSE <<>>
    ELSE LET now == ToggleInString(json, i, inString) IN
         IF now THEN SplitJsonFrom(json, i + 1, depth, start, now)
         ELSE IF json[i] \in {"[", "{"} THEN SplitJsonFrom(json, i + 1, depth + 1, start, now)
         ELSE IF json[i] \in {"]", "}"} THEN SplitJsonFrom(json, i + 1, depth - 1, start, now)
         ELSE IF json[i] = "," /\ depth = 0
         THEN <<Trim(SubSeq(json, start, i - 1))>> \o SplitJsonFrom(json, i + 1, depth, i + 1, now)
         ELSE SplitJsonFrom(json, i + 1, depth, start, now)

splitJson(json) == SplitJsonFrom(json, 1, 0, 1, FALSE)

RECURSIVE FindColonFrom(_, _, _, _)
\* The loop of findColon; positions count from 1, 0 stands for Java's -1 and
\* for a colon at Java's index 0, which the caller treats alike.
FindColonFrom(s, i, depth, inString) ==
    IF i > Len(s) THEN 0
    ELSE LET now == ToggleInString(s, i, inString) IN
         IF now THEN FindColonFrom(s, i + 1, depth, now)
         ELSE IF s[i] \in {"[", "{"} THEN FindColonFrom(s, i + 1, depth + 1, now)
         ELSE IF s[i] \in {"]", "}"} THEN FindColonFrom(s, i + 1, depth - 1, now)
         ELSE IF s[i] = ":" /\ depth = 0 THEN (IF i = 1 THEN 0 ELSE i)
         ELSE FindColonFrom(s, i + 1, depth, now)

findColon(s) == FindColonFrom(s, 1, 0, FALSE)

\* LinkedHashMap.put: a key already present keeps its place and takes the
\* new value.
MapPut(entries, key, val) ==
    IF \E i \in 1..Len(entries) : entries[i].key = key
    THEN [i \in 1..Len(entries) |->
            IF entries[i].key = key THEN Entry(key, val) ELSE entries[i]]
    ELSE Append(entries, Entry(key, val))

RECURSIVE parseJson(_)
RECURSIVE ParsePairs(_, _)
\* parseJson of the runner: null and quoted text as in JavaParseJson, then
\* the array and object branches, then numbers and the fallback.
parseJson(text) ==
    LET json == Trim(text)
        quoted == Len(json) >= 2 /\ json[1] = "\"" /\ json[Len(json)] = "\""
        inner == Trim(SubSeq(json, 2, Len(json) - 1))
    IN IF ~quoted /\ Len(json) >= 2 /\ json[1] = "[" /\ json[Len(json)] = "]"
       THEN IF inner = <<>> THEN VArr(<<>>)
            ELSE LET items == splitJson(inner) IN
                 VArr([i \in 1..Len(items) |-> parseJson(items[i])])
       ELSE IF ~quoted /\ Len(json) >= 2 /\ json[1] = "{" /\ json[Len(json)] = "}"
       THEN IF inner = <<>> THEN VObj(<<>>) ELSE VObj(ParsePairs(splitJson(inner), <<>>))
       ELSE JavaParseJson(json).v

\* The loop over the pairs of an object: a pair without a colon past its
\* first character is skipped.
ParsePairs(pairs, map) ==
    IF pairs = <<>> THEN map
    ELSE LET pair == Head(pairs)
             colonIdx == findColon(pair)
             rawKey == Trim(SubSeq(pair, 1, colonIdx - 1))
             key == IF Len(rawKey) >= 2 /\ rawKey[1] = "\"" /\ rawKey[Len(rawKey)] = "\""
                    THEN SubSeq(rawKey, 2, Len(rawKey) - 1)
                    ELSE rawKey
             val == Trim(SubSeq(pair, colonIdx + 1, Len(pair)))
         IN IF colonIdx > 0
            THEN ParsePairs(Tail(pairs), MapPut(map, key, parseJson(val)))
            ELSE ParsePairs(Tail(pairs), map)

JsonChars == {"a", "n", "1", "\"", "\\", ",", ":", "[", "]", "{", "}", "\n"}
JsonStrings == SeqsOf(JsonChars, 0, MaxJsonChars)
\* Strings that end in a backslash or hold a separator, and plain ones.
JsonMembers ==
    {<<"a">>, <<"\\">>, <<"a", "\\">>, <<",">>, <<":">>, <<"]">>, <<"\"">>, <<"\\", "n">>, <<>>}
JsonInputs ==
    {VStr(q) : q \in JsonStrings}
    \cup {VArr([i \in 1..Len(q) |-> VStr(q[i])]) : q \in SeqsOf(JsonMembers, 0, MaxJsonElems)}
    \cup {VObj(<<Entry(<<"k">>, VStr(x))>>) : x \in JsonMembers}
    \cup {VObj(<<Entry(<<"k">>, VStr(x)), Entry(<<"j">>, VStr(y))>>) : x, y \in JsonMembers}

JavaJsonInit ==
    /\ fnName = "parseJson"
    /\ fnArg \in JsonInputs
    /\ fnRes = NotApplied

\* The runner decodes the JSON text of a value.
ApplyParseJson ==
    /\ fnName = "parseJson"
    /\ ~fnRes.done
    /\ fnRes' = [done |-> TRUE, out |-> parseJson(JsonTextOf(fnArg))]
    /\ UNCHANGED <<fnName, fnArg>>
    /\ FnFrame

JavaJsonNext == ApplyParseJson

InitJavaJson == JavaJsonInit /\ OthersIdle
SpecJavaJson == InitJavaJson /\ [][JavaJsonNext]_vars

(***************************************************************************)
(* valueToCode on null, undefined and whole numbers, per generator class.  *)
(* "go" and "ruby" are the classes of go.js and ruby.js, which override    *)
(* no literal; "go_part_002" and "ruby_part_003" are the GoGenerator and   *)
(* RubyGenerator of part_002 and part_003, which do.  A whole number is    *)
(* held as its sign and decimal digits, so that values beyond 32 bits are  *)
(* kept exactly.                                                           *)
(***************************************************************************)
GeneratorClasses ==
    {"python", "javascript", "java", "cpp", "csharp", "go", "ruby", "go_part_002", "ruby_part_003"}

VWhole(neg, digits) == [Blank EXCEPT !.t = "int", !.k = "digits", !.b = neg, !.s = digits]

nullLiteral(gen) ==
    CASE gen = "python" -> <<"N", "o", "n", "e">>
      [] gen \in {"go_part_002", "ruby_part_003"} -> <<"n", "i", "l">>
      [] OTHER -> <<"n", "u", "l", "l">>

\* Only python.js overrides it; every other class inherits base.js's 'null'.
undefinedLiteral(gen) ==
    IF gen = "python" THEN <<"N", "o", "n", "e">> ELSE <<"n", "u", "l", "l">>

RECURSIVE AllZero(_)
AllZero(q) == q = <<>> \/ (Head(q) = "0" /\ AllZero(Tail(q)))

\* String(value) of a whole number: sign and digits below 1e21, exponent
\* form from there on (modelled for the powers of ten).
WholeToString(v) ==
    (IF v.b THEN <<"-">> ELSE <<>>)
    \o (IF Len(v.s) >= 22 /\ AllZero(Tail(v.s))
        THEN <<Head(v.s), "e", "+">> \o NatToChars(Len(v.s) - 1)
        ELSE v.s)

RECURSIVE DigitsGreater(_, _)
\* a > b for two digit texts without leading zeros.
DigitsGreater(a, b) ==
    \/ Len(a) > Len(b)
    \/ /\ Len(a) = Len(b) /\ a # <<>>
       /\ \/ DigitValue(Head(a)) > DigitValue(Head(b))
          \/ Head(a) = Head(b) /\ DigitsGreater(Tail(a), Tail(b))

Int32Max == <<"2", "1", "4", "7", "4", "8", "3", "6", "4", "7">>
Int32MinMagnitude == <<"2", "1", "4", "7", "4", "8", "3", "6", "4", "8">>

\* value > 2147483647 || value < -2147483648
Exceeds32(v) ==
    IF v.b THEN DigitsGreater(v.s, Int32MinMagnitude) ELSE DigitsGreater(v.s, Int32Max)

\* numberLiteral of a whole number: csharp.js appends L beyond 32 bits; every
\* other class returns String(value).
numberLiteral(gen, v) ==
    IF gen = "csharp" /\ Exceeds32(v) THEN WholeToString(v) \o <<"L">>
    ELSE WholeToString(v)

\* base.js valueToCode on null, undefined and whole numbers.
LiteralCode(gen, v) ==
    CASE v.t = "null" -> nullLiteral(gen)
      [] v.t = "undefined" -> undefinedLiteral(gen)
      [] OTHER -> numberLiteral(gen, v)

WholeDigits ==
    { <<"0">>, <<"7">>, <<"1", "2">>, Int32Max, Int32MinMagnitude,
      <<"2", "1", "4", "7", "4", "8", "3", "6", "4", "9">>,
      <<"2", "1", "4", "7", "4", "8", "3", "6", "4", "6">>,
      <<"3", "0", "0", "0", "0", "0", "0", "0", "0", "0">>,
      <<"9", "9", "9", "9", "9", "9", "9", "9", "9">>,
      <<"9", "0", "0", "7", "1", "9", "9", "2", "5", "4", "7", "4", "0", "9", "9", "1">>,
      <<"1">> \o [i \in 1..21 |-> "0"] }
LiteralValues ==
    {VNull, VUndef}
    \cup ({VWhole(neg, d) : neg \in BOOLEAN, d \in WholeDigits} \ {VWhole(TRUE, <<"0">>)})

LiteralsInit ==
    /\ fnName = "valueToCode"
    /\ fnArg \in {[gen |-> g, value |-> v] : g \in GeneratorClasses, v \in LiteralValues}
    /\ fnRes = NotApplied

\* A caller asks a generator for the code of a value.
ApplyValueToCode ==
    /\ fnName = "valueToCode"
    /\ ~fnRes.done
    /\ fnRes' = [done |-> TRUE, out |-> LiteralCode(fnArg.gen, fnArg.value)]
    /\ UNCHANGED <<fnName, fnArg>>
    /\ FnFrame

LiteralsNext == ApplyValueToCode

InitLiterals == LiteralsInit /\ OthersIdle
SpecLiterals == InitLiterals /\ [][LiteralsNext]_vars

(***************************************************************************)
(* deepEquals of the JavaScript runner applied to a pair of values in both *)
(* orders.  The members of a Set are held in a sequence; two object        *)
(* members with equal contents are two objects.                            *)
(***************************************************************************)
MaxSetSize == 2

SymScalars == {VNull, VUndef, VInt(1), VInt(2), VNaN, VStr(<<"a">>)}
SymObjects == {VArr(<<VInt(1)>>), VArr(<<VInt(2)>>), VObj(<<Entry("k", VInt(1))>>)}
SymMembers == SymScalars \cup SymObjects
\* Member lists a Set or Map can hold: no primitive twice.
DistinctPrimitives(q, KeyOf(_)) ==
    \A i, j \in 1..Len(q) :
       (i # j /\ KeyOf(q[i]).t \notin {"arr", "obj"}) => KeyOf(q[i]) # KeyOf(q[j])
SymValues ==
    SymMembers
    \cup {VSet(q) : q \in {r \in SeqsOf(SymMembers, 0, MaxSetSize) :
                             DistinctPrimitives(r, LAMBDA m : m)}}
    \cup {VMap(q) : q \in {r \in SeqsOf({VArr(<<k, v>>) :
                                           k \in {VInt(1), VInt(2), VArr(<<VInt(1)>>)},
                                           v \in {VInt(1), VArr(<<VInt(1)>>)}},
                                        0, MaxSetSize) :
                             DistinctPrimitives(r, LAMBDA m : m.a[1])}}

SymmetryInit ==
    /\ fnName = "deepEquals"
    /\ fnArg \in {[a |-> a, b |-> b] : a \in SymValues, b \in SymValues}
    /\ fnRes = NotApplied

\* The runner's deepEquals is called on the pair, and on the pair swapped.
ApplyDeepEqualsBothWays ==
    /\ fnName = "deepEquals"
    /\ ~fnRes.done
    /\ fnRes' = [done |-> TRUE, ab |-> JsDeepEquals(fnArg.a, fnArg.b),
                 ba |-> JsDeepEquals(fnArg.b, fnArg.a)]
    /\ UNCHANGED <<fnName, fnArg>>
    /\ FnFrame

SymmetryNext == ApplyDeepEqualsBothWays

InitSymmetry == SymmetryInit /\ OthersIdle
SpecSymmetry == InitSymmetry /\ [][SymmetryNext]_vars

(***************************************************************************)
(* convertPythonTuplesToArrays on call texts whose arguments are string    *)
(* literals: quoted with either quote, holding the other quote, escaped    *)
(* quotes and backslashes, and template strings ("backtick" stands for the *)
(* grave accent).                                                          *)
(***************************************************************************)
LiteralCallees == { <<"f">>, <<"o", ".", "m">> }
LiteralArgs ==
    { <<"\"", "a", "\"">>,
      <<"\"", "(", "\"">>,
      <<"'", ")", "(", "'">>,
      <<"\"", "'", "(", "\"">>,
      <<"\"", "\\", "\"", "(", "\"">>,
      <<"\"", "\\", "\\", "\"", ",", " ", "\"", "(", "\"">>,
      <<"'", "a", "\\", "\\", "'", ",", "'", ")", "'">>,
      <<"backtick", "(", "1", ")", "backtick">>,
      <<"[", "(", "1", ",", "\"", ")", "\"", ")", "]">>,
      <<"(", "\"", "a", "\"", ",", "[", "1", "]", ")">> }
LiteralTexts ==
    { callee \o <<"(">> \o arg \o <<")">> : callee \in LiteralCallees, arg \in LiteralArgs }

TupleStringsInit ==
    /\ fnName = "convertTuples"
    /\ fnArg \in LiteralTexts
    /\ fnRes = ScanStart

InitTupleStrings == TupleStringsInit /\ OthersIdle
SpecTupleStrings == InitTupleStrings /\ [][TuplesNext]_vars

(***************************************************************************)
(* Specifications.                                                         *)
(***************************************************************************)
InitConnect ==
    /\ ConnectInit
    /\ RegistryIdle /\ RunnerIdle /\ HandlerIdle /\ PythonIdle /\ CompareIdle /\ CppIdle
    /\ FnIdle
SpecConnect == InitConnect /\ [][ConnectNext]_vars

InitRunner ==
    /\ RunnerInit /\ RegistryIdle /\ HandlerIdle /\ PythonIdle /\ CompareIdle /\ CppIdle /\ FnIdle
    /\ ConnectIdle
SpecRunner == InitRunner /\ [][RunnerNext]_vars

InitRegistry ==
    /\ RegistryInit /\ RunnerIdle /\ HandlerIdle /\ PythonIdle /\ CompareIdle /\ CppIdle /\ FnIdle
    /\ ConnectIdle
SpecRegistry == InitRegistry /\ [][RegistryNext]_vars

InitHandler ==
    /\ HandlerInit /\ RegistryIdle /\ RunnerIdle /\ PythonIdle /\ CompareIdle /\ CppIdle /\ FnIdle
    /\ ConnectIdle
SpecHandler == InitHandler /\ [][HandlerNext]_vars

InitPython ==
    /\ PythonInit /\ RegistryIdle /\ RunnerIdle /\ HandlerIdle /\ CompareIdle /\ CppIdle /\ FnIdle
    /\ ConnectIdle
SpecPython == InitPython /\ [][PythonNext]_vars

InitCompare ==
    /\ CompareInit /\ RegistryIdle /\ RunnerIdle /\ HandlerIdle /\ PythonIdle /\ CppIdle /\ FnIdle
    /\ ConnectIdle
SpecCompare == InitCompare /\ [][CompareNext]_vars

InitCpp ==
    /\ CppInit /\ RegistryIdle /\ RunnerIdle /\ HandlerIdle /\ PythonIdle /\ CompareIdle /\ FnIdle
    /\ ConnectIdle
SpecCpp == InitCpp /\ [][CppNext]_vars

(***************************************************************************)
(* Properties of the generated runners' test loops.                        *)
(***************************************************************************)
\* The recorded error has the form "<kind>: <message>".
IsKindColonMessage(e) == Len(e) = 3 /\ e[2] = ": "

\* C1: in every backend's runner, whichever cases fault, the runner ends by
\* emitting one outcome per case in case order (outcome i has index i); a
\* faulting case's outcome has passed = false and an error of the form
\* "<kind>: <message>"; a non-faulting case's outcome is its own verdict with
\* no error.
C1_FaultsCapturedPerCase ==
    rStatus \in {"done", "aborted"} =>
        /\ rStatus = "done"
        /\ Len(rResults) = Len(rCases)
        /\ \A i \in 1..Len(rResults) :
              /\ rResults[i].index = i - 1
              /\ rCases[i].fault # "none" =>
                    /\ rResults[i].passed = FALSE
                    /\ IsKindColonMessage(rResults[i].error)
              /\ rCases[i].fault = "none" =>
                    /\ rResults[i].passed = rCases[i].eq
                    /\ rResults[i].error = NoError

(***************************************************************************)
(* Properties of the registry and the fallback generator.                  *)
(***************************************************************************)
\* C3: for a language that names no native backend, with a non-empty files
\* array, generateTestRunner returns without throwing and the generator it
\* used is the generic fallback.
C3_UnknownLanguageFallsBack ==
    (gOut.called /\ NormalizeLanguage(gLanguage) \notin OwnKeys /\ gFiles # <<>>) =>
        /\ ~gOut.threw
        /\ gOut.generator = "generic"

\* C4: the fallback's generateRunner returns the caller's files unchanged,
\* entryPoint the first file's name, mode "fallback", and a stdin that decodes
\* to an array with one element per test case, in order, each having exactly
\* the fields call and expected of its test case.
C4_FallbackPassesThrough ==
    (gOut.called /\ gOut.generator = "generic" /\ ~gOut.threw) =>
        /\ gOut.files = gFiles
        /\ gOut.entryPoint = gFiles[1].name
        /\ gOut.mode = "fallback"
        /\ LET d == JsonParse(gOut.stdin) IN
           /\ d.t = "arr"
           /\ Len(d.a) = Len(gTestCases)
           /\ \A i \in 1..Len(d.a) :
                 /\ d.a[i].t = "obj"
                 /\ Len(d.a[i].o) = 2
                 /\ d.a[i].o[1] = Entry("call", gTestCases[i].call)
                 /\ d.a[i].o[2] = Entry("expected", gTestCases[i].expected)

\* The fallback ran on two files and two test cases, the first of which
\* carries a field besides call and expected.
C4_Witness ==
    /\ gOut.called
    /\ gOut.mode = "fallback"
    /\ Len(gFiles) = 2
    /\ Len(gTestCases) = 2
    /\ gTestCases[1].extra
    /\ gFiles[1] # gFiles[2]

(***************************************************************************)
(* Properties of the /testCompile handler.                                 *)
(***************************************************************************)
\* The runner's output breaks the output contract: trimmed it is empty, or
\* it is not valid JSON, or it is valid JSON but no array.
ContractFailure(stdout) ==
    LET trimmed == TrimChunks(stdout) IN
    \/ trimmed = <<>>
    \/ ~JsonParseOutput(trimmed).ok
    \/ ~JsonParseOutput(trimmed).isArray

\* The response holds one failed result per submitted test case, in order,
\* whose index, call and expected are the test case's and whose actual is null.
OneFailedResultPerCase ==
    /\ hResp.status = 200
    /\ Len(hResp.test_results) = Len(hReq.test_cases.items)
    /\ \A i \in 1..Len(hResp.test_results) :
          /\ hResp.test_results[i].index = VInt(i - 1)
          /\ hResp.test_results[i].call = hReq.test_cases.items[i].call
          /\ hResp.test_results[i].expected = hReq.test_cases.items[i].expected
          /\ hResp.test_results[i].actual = VNull
          /\ hResp.test_results[i].passed = FALSE

\* Every result carries the same output-parse error.
SameParseError ==
    \A i \in 1..Len(hResp.test_results) :
        /\ hResp.test_results[i].error = hResp.test_results[1].error
        /\ hResp.test_results[i].error.t = "str"
        /\ hResp.test_results[i].error.s[1] = "Output parse error: "

NativeRunBrokeContract ==
    hExec.hasRun /\ hRunner.mode = "native" /\ ContractFailure(hExec.stdout)

\* C2 (as stated): for a native backend whose runner's output breaks the
\* output contract, the response has one failed result per test case with
\* actual null and the same parse error, and no field of any result holds
\* text of the runner's output.
C2_ContractFailureFailsBatch ==
    NativeRunBrokeContract =>
        /\ OneFailedResultPerCase
        /\ SameParseError
        /\ \A i \in 1..Len(hResp.test_results) : hResp.test_results[i].stdout.text = <<>>

\* C2 (amended): for a native backend whose runner's output breaks the
\* output contract, the response has one failed result per test case with
\* actual null and the same parse error; the runner's raw stdout is copied
\* whole into every result's execution.stdout and into no other field.
C2_ContractFailureFailsBatchAmended ==
    NativeRunBrokeContract =>
        /\ OneFailedResultPerCase
        /\ SameParseError
        /\ \A i \in 1..Len(hResp.test_results) :
              hResp.test_results[i].stdout = EchoStdout(hExec.stdout)

\* A native runner's output was cut off inside the array, for two test cases.
C2_Witness ==
    /\ hExec.hasRun
    /\ hRunner.mode = "native"
    /\ hExec.stdout = StdoutTruncated
    /\ Len(hReq.test_cases.items) = 2
    /\ hResp.status = 200

InvalidTestCases(body) ==
    \/ body.kind # "array"
    \/ Len(body.items) = 0
    \/ Len(body.items) > max_test_cases
    \/ \E i \in 1..Len(body.items) :
          \/ body.items[i].call.t # "str"
          \/ Trim(body.items[i].call.s) = <<>>
          \/ ~body.items[i].hasExpected

\* C6: a request with invalid test_cases is answered 400 and nothing else
\* happens: generateTestRunner is not called and no job is created, primed
\* or executed.
C6_InvalidRejectedBeforeGeneration ==
    (hPc \notin {"idle", "received"} /\ InvalidTestCases(hReq.test_cases)) =>
        /\ hResp.status = 400
        /\ hPc = "finished"
        /\ hEvents = <<"validate_test_cases">>
        /\ hRunner = NoOutput
        /\ hExec = NoExec

\* A request whose first test case is valid and whose second has no
\* expected field was answered.
C6_Witness ==
    /\ hPc = "finished"
    /\ hReq.test_cases.kind = "array"
    /\ hReq.test_cases.items = <<TcValid1, TcNoExpected>>
    /\ hResp.status = 400

(***************************************************************************)
(* Properties of the Python generator.                                     *)
(***************************************************************************)
\* C7: every call on the shared PythonGenerator returns what the same call
\* returns on a fresh instance, whatever calls came before, and
\* nestingLevel is 0 whenever a top-level call starts.
C7_GenerationIsPure ==
    /\ pyNesting = 0
    /\ pyOut.called =>
          LET fresh == PyRun(pyArg, 0) IN
          /\ pyOut.threw = fresh.threw
          /\ pyOut.code = fresh.code

(***************************************************************************)
(* Properties of the comparators.                                          *)
(***************************************************************************)
NonStrictBackends == {"python", "java", "javascript"}

RECURSIVE SameValue(_, _)
\* v and w have the same tag and the same content (an object's content is
\* its keys with their values, whatever their order); an integer and a float
\* of the same numeric value also count as the same, which is the exception
\* non-strict backends are allowed.
SameValue(v, w) ==
    IF IsNumber(v) /\ IsNumber(w) THEN (v = w \/ NumEq(v, w))
    ELSE IF v.t # w.t THEN FALSE
    ELSE CASE v.t = "arr" -> Len(v.a) = Len(w.a) /\ AllPairs(SameValue, v.a, w.a)
           [] v.t = "obj" ->
                 /\ KeysOf(v.o) = KeysOf(w.o)
                 /\ \A k \in KeysOf(v.o) : SameValue(Lookup(v.o, k), Lookup(w.o, k))
           [] OTHER -> v = w

\* C8: a non-strict backend's comparator finds a value equal to itself and
\* finds two values unequal when they differ in tag or content, an integer
\* against a float of the same numeric value excepted.
C8_CompareIsExactEquality ==
    (cRes # "none" /\ cBackend \in NonStrictBackends) =>
        /\ cA = cB => cRes = "eq"
        /\ ~SameValue(cA, cB) => cRes = "ne"

\* The special float an expected value denotes for a backend: the C++ runner
\* receives NaN and the infinities as the JSON strings of their names.
SpecialDenoted(backend, b) ==
    IF b.t = "float" /\ b.k # "fin" THEN b.k
    ELSE IF backend = "cpp" /\ b.t = "str"
    THEN CASE b.s = <<"N", "a", "N">> -> "nan"
           [] b.s = <<"I", "n", "f", "i", "n", "i", "t", "y">> -> "pinf"
           [] b.s = <<"-", "I", "n", "f", "i", "n", "i", "t", "y">> -> "ninf"
           [] OTHER -> "none"
    ELSE "none"

\* C9: in every backend's comparator NaN equals NaN, each infinity equals
\* itself, and +Infinity does not equal -Infinity.
C9_SpecialFloatsCompare ==
    (/\ cRes # "none"
     /\ cA.t = "float" /\ cA.k # "fin"
     /\ SpecialDenoted(cBackend, cB) # "none"
     /\ {cA.k, SpecialDenoted(cBackend, cB)} \in
            {{"nan"}, {"pinf"}, {"ninf"}, {"pinf", "ninf"}}) =>
        (cRes = "eq" <=> cA.k = SpecialDenoted(cBackend, cB))

(***************************************************************************)
(* Properties of the strict C++ backend, end to end.                       *)
(***************************************************************************)
\* C10: in the strict C++ backend a call returning double 1.0 passes
\* against expected written 1.0 and fails against expected written 1; a
\* call returning int 1 fails against expected written 1.0 and passes
\* against expected written 1.
C10_StrictIntFloatEndToEnd ==
    (/\ xPc = "done"
     /\ xCase.actual \in {VInt(1), VFloat(1)}
     /\ xCase.written \in {<<"1">>, <<"1", ".", "0">>}) =>
        xVerdict = IF (xCase.actual.t = "float") <=> (xCase.written = <<"1", ".", "0">>)
                   THEN "pass" ELSE "fail"

(***************************************************************************)
(* Order sensitivity of the comparators.                                   *)
(***************************************************************************)
\* The entries of a map, regardless of the order they were inserted in.
EntrySet(v) == {v.o[i] : i \in 1..Len(v.o)}
\* q holds the elements of p in another order.
Reordered(p, q) ==
    /\ Len(p) = Len(q)
    /\ p # q
    /\ \E f \in [1..Len(p) -> 1..Len(p)] :
          /\ \A i, j \in 1..Len(p) : i # j => f[i] # f[j]
          /\ \A i \in 1..Len(p) : q[i] = p[f[i]]

\* C11: in every backend's comparator two arrays holding the same elements
\* in a different order compare unequal, and two maps holding the same
\* key/value pairs compare equal whatever order the pairs were inserted in.
C11_OrderSensitivity ==
    cRes # "none" =>
        /\ (cA.t = "arr" /\ cB.t = "arr" /\ Reordered(cA.a, cB.a)) => cRes = "ne"
        /\ (/\ cA.t = "obj" /\ cB.t = "obj"
            /\ Len(cA.o) = Len(cB.o)
            /\ EntrySet(cA) = EntrySet(cB)) => cRes = "eq"

(***************************************************************************)
(* Pass-through of the call text.                                          *)
(***************************************************************************)
\* The test cases are plain {call, expected} records: no Invocation attached.
PassThroughMode(testCases) == \A i \in 1..Len(testCases) : ~testCases[i].parsed.present

\* The decoded stdin is an array as long as the test cases whose element i
\* carries test case i's call and expected value.
StdinCarries(res, testCases) ==
    /\ res.hasStdin
    /\ LET data == JsonParse(res.stdin) IN
       /\ data.t = "arr"
       /\ Len(data.a) = Len(testCases)
       /\ \A i \in 1..Len(testCases) :
             /\ data.a[i].t = "obj"
             /\ "call" \in KeysOf(data.a[i].o)
             /\ "expected" \in KeysOf(data.a[i].o)
             /\ Lookup(data.a[i].o, "call") = VStr(testCases[i].call)
             /\ Lookup(data.a[i].o, "expected") = testCases[i].expected

\* C12: in pass-through mode the interpreted backends return a stdin that
\* decodes to one {call, expected} record per test case with the call text
\* unchanged, and the compiled backends return a runner source containing
\* every test case's call text verbatim.
C12_CallTextUnchanged ==
    (fnName = "generateRunner" /\ fnRes.done /\ PassThroughMode(fnArg.testCases)) =>
        /\ ~fnRes.threw
        /\ fnArg.backend \in InterpretedBackends => StdinCarries(fnRes, fnArg.testCases)
        /\ fnArg.backend \in CompiledBackends =>
              \A i \in 1..Len(fnArg.testCases) :
                 Contains(fnRes.source, fnArg.testCases[i].call)

(***************************************************************************)
(* The stdin C++ backend: one line per test case.                          *)
(***************************************************************************)
\* The value the generator takes a test case's expected to be
\* (parseExpectedValue): a number as it is, a string holding an integer or
\* float text as that number, any other string as the string.
ExpectedValueOf(case) ==
    LET e == ExpectedInRequest(case) IN
    IF e.t # "str" THEN e
    ELSE LET trimmed == Trim(e.s) IN
         IF IsIntText(trimmed) \/ IsFloatText(trimmed) THEN JsNumber(DecimalUnits(trimmed))
         ELSE e

\* Equal as JSON values: the same number, or the same string.
SameJsonValue(v, w) ==
    IF IsNumber(v) /\ IsNumber(w) THEN NumEq(v, w) ELSE v = w

\* C13: for N test cases the stdin of the stdin C++ backend has N non-empty
\* lines, and the runner's expectedValues has length N with expectedValues[i]
\* the expected value of test case i.
C13_OneLinePerCase ==
    (fnName = "stdinRunner" /\ fnRes # NotApplied /\ fnRes.done) =>
        /\ Len(SelectEntries(NonEmptyLine, GetLines(fnRes.stdin))) = Len(fnArg)
        /\ ~fnRes.crashed
        /\ Len(fnRes.expectedValues) = Len(fnArg)
        /\ \A i \in 1..Len(fnArg) :
              SameJsonValue(fnRes.expectedValues[i], ExpectedValueOf(fnArg[i]))

(***************************************************************************)
(* Float protection of the stdin C++ generator.                            *)
(***************************************************************************)
RECURSIVE FloatsWrapped(_)
\* The value the text denotes with every float token as a wrapper carrying
\* its text, every other number a plain integer, every string itself.
FloatsWrapped(d) ==
    CASE d.t = "j:num" -> IF IsFloatToken(d.s) THEN CppFloat(d.s) ELSE VInt(d.n \div Unit)
      [] d.t = "j:str" -> VStr(d.s)
      [] d.t = "j:arr" -> VArr(MapSeq(FloatsWrapped, d.a))
      [] d.t = "j:obj" -> LET Field(e) == Entry(e.key, FloatsWrapped(e.val))
                          IN VObj(MapSeq(Field, d.o))

\* C14: restoreFloatWrappers(JSON.parse(protectFloatLiterals(text).modified),
\* floatMap) has the structure of the text, a float wrapper with the original
\* text for every float token, a plain integer for every other number, and
\* every string value unchanged.
C14_FloatProtectionRoundTrip ==
    (fnName = "parseWithFloats" /\ fnRes.done) => fnRes.value = FloatsWrapped(fnArg)

(***************************************************************************)
(* Round trip of the JavaScript runner's type-preserving serialization.    *)
(***************************************************************************)
\* The kind of a JavaScript value.
JsKind(v) ==
    CASE IsNumber(v) -> "number"
      [] OTHER -> v.t

\* C15: in the JavaScript backend convertExpected(JSON.parse(JSON.stringify(
\* serialize(v)))) is deepEquals-equal to v and has the kind of v, for every
\* v built from null, undefined, booleans, numbers, strings, arrays, plain
\* objects, Sets and Maps.
C15_SerializeRoundTrip ==
    (fnName = "serializeRoundTrip" /\ fnRes.done) =>
        /\ JsKind(fnRes.value) = JsKind(fnArg)
        /\ JsDeepEquals(fnRes.value, fnArg)

(***************************************************************************)
(* Resolution of the registry's own keys.                                  *)
(***************************************************************************)
\* C16: every key of the registry's table (every value getSupportedLanguages
\* returns), written in any letter case, resolves through getGenerator to
\* the native generator of its family, never to the fallback, and
\* hasNativeSupport is true for it.
C16_TableKeysResolveNative ==
    (gOut.called /\ MapSeq(ToLowerChar, gLanguage) \in OwnKeys) =>
        /\ getGenerator(gLanguage).kind = "native"
        /\ getGenerator(gLanguage).family = FamilyOf(MapSeq(ToLowerChar, gLanguage))
        /\ gOut.generator = FamilyOf(MapSeq(ToLowerChar, gLanguage))
        /\ hasNativeSupport(gLanguage)

(***************************************************************************)
(* Maps with keys that are not strings.                                    *)
(***************************************************************************)
\* The string form of a key.
KeyText(key) == IF key.t = "int" THEN NatToChars(key.n \div Unit) ELSE key.s

\* expected holds, under the string form of every key of actual, the value
\* actual holds under that key, and some key of actual is not a string.
IsStringKeyedCopy(actual, expected) ==
    /\ Len(actual.a) = Len(expected.o)
    /\ \E i \in 1..Len(actual.a) : actual.a[i].a[1].t # "str"
    /\ \A i \in 1..Len(actual.a) :
          \E j \in 1..Len(expected.o) :
             /\ <<expected.o[j].key>> = KeyText(actual.a[i].a[1])
             /\ expected.o[j].val = actual.a[i].a[2]

\* expected has the size of actual and lacks a key of actual in both forms.
LacksAKey(actual, expected) ==
    /\ Len(actual.a) = Len(expected.o)
    /\ \E i \in 1..Len(actual.a) :
          \A j \in 1..Len(expected.o) : <<expected.o[j].key>> # KeyText(actual.a[i].a[1])

\* C17: in every backend's comparator an actual map with non-string keys
\* equals the decoded expected map that holds the same values under the
\* string forms of those keys, and differs from an expected map of the same
\* size that lacks one of its keys in both forms.
C17_NonStringKeysMatchStringForm ==
    (fnName = "compareMaps" /\ fnRes.done) =>
        /\ IsStringKeyedCopy(fnArg.actual, fnArg.expected) => fnRes.equal
        /\ LacksAKey(fnArg.actual, fnArg.expected) => ~fnRes.equal

(***************************************************************************)
(* Call parentheses and tuple parentheses.                                 *)
(***************************************************************************)
\* Position p of the text is outside every quoted string (texts without
\* backslashes): an even number of quote characters of each kind that are
\* themselves outside a string of the other kind precede it.  The texts
\* studied use one kind of quote per string and never nest them.
OutsideString(str, p) ==
    /\ str[p] \notin {"\"", "'"}
    /\ Cardinality({q \in 1..(p - 1) : str[q] = "\""}) % 2 = 0
    /\ Cardinality({q \in 1..(p - 1) : str[q] = "'"}) % 2 = 0

ParenCount(str, c, lo, hi) ==
    Cardinality({r \in lo..hi : str[r] = c /\ OutsideString(str, r)})

\* The ")" that closes the "(" at p.
MatchingParen(str, p) ==
    CHOOSE q \in (p + 1)..Len(str) :
        /\ str[q] = ")" /\ OutsideString(str, q)
        /\ ParenCount(str, "(", p, q) = ParenCount(str, ")", p, q)
        /\ \A r \in (p + 1)..(q - 1) :
              ~(/\ str[r] = ")" /\ OutsideString(str, r)
                /\ ParenCount(str, "(", p, r) = ParenCount(str, ")", p, r))

\* The nearest non-whitespace character before p is an identifier character,
\* ")" or "]".
FollowsCallee(str, p) ==
    \E j \in 1..(p - 1) :
        /\ ~IsSpace(str[j])
        /\ \A k \in (j + 1)..(p - 1) : IsSpace(str[k])
        /\ str[j] \in IdentChars \cup {")", "]"}

\* C18: convertPythonTuplesToArrays keeps as "(" ... ")" every parenthesis
\* outside a string that follows an identifier character, ")" or "]", and
\* rewrites every other parenthesis outside a string to "[" ... "]".
C18_CallParensKept ==
    (fnName = "convertTuples" /\ fnRes.done) =>
        \A p \in 1..Len(fnArg) :
            (fnArg[p] = "(" /\ OutsideString(fnArg, p)) =>
                IF FollowsCallee(fnArg, p)
                THEN /\ fnRes.result[p] = "("
                     /\ fnRes.result[MatchingParen(fnArg, p)] = ")"
                ELSE /\ fnRes.result[p] = "["
                     /\ fnRes.result[MatchingParen(fnArg, p)] = "]"

(***************************************************************************)
(* What the call parser rejects.                                           *)
(***************************************************************************)
RECURSIVE HasUnsupported(_)
\* The node holds, at some depth, a call, a bare identifier that is not one
\* of the named constants, a computed key, a spread, a ternary or a template
\* string with an interpolation.  A key that is not computed is a name, not
\* an identifier reference.
HasUnsupported(node) ==
    \/ node.type \in {"CallExpression", "SpreadElement", "ConditionalExpression"}
    \/ node.type = "Identifier"
       /\ node.name \notin {"null", "true", "false", "NaN", "Infinity", "undefined"}
    \/ node.type = "TemplateLiteral" /\ node.name # "0"
    \/ node.type = "Property" /\ node.computed
    \/ node.type = "Property" /\ ~node.computed /\ HasUnsupported(node.kids[2])
    \/ node.type \notin {"Property", "Identifier", "TemplateLiteral"}
       /\ \E i \in 1..Len(node.kids) : HasUnsupported(node.kids[i])

\* C19: parseCallExpression raises an error for every text whose arguments
\* hold, at any depth, a nested call, an unknown bare identifier, a computed
\* key, a spread, a ternary or an interpolated template string; empty or
\* non-string input raises the 'non-empty string' error and a root that is
\* not a call raises the 'Expected a function call' error.
C19_UnsupportedArgumentsRejected ==
    (fnName = "parseCallExpression" /\ fnRes.done) =>
        /\ (/\ fnArg.kind = "ast" /\ fnArg.ast.type = "CallExpression"
            /\ \E i \in 2..Len(fnArg.ast.kids) : HasUnsupported(fnArg.ast.kids[i]))
              => fnRes.out.threw
        /\ fnArg.kind \in {"nonstring", "empty"} =>
              (fnRes.out.threw /\ fnRes.out.message = "Call expression must be a non-empty string")
        /\ (fnArg.kind = "ast" /\ fnArg.ast.type # "CallExpression") =>
              (fnRes.out.threw /\ fnRes.out.message = "Expected a function call")

(***************************************************************************)
(* The embedded expected literal.                                          *)
(***************************************************************************)
\* C20: for Go, Java, C# and embedded C++ and every expected value, strings
\* with double quotes, backslashes, newlines and backticks included, the
\* value the runner decodes from the embedded literal equals the test
\* case's expected value; the decode never yields null or another value.
C20_EmbeddedLiteralRoundTrip ==
    (fnName = "decodeEmbedded" /\ fnRes.done) =>
        (fnRes.out.outcome = "value" /\ fnRes.out.v = fnArg.expected)

(***************************************************************************)
(* The Java runner's JSON decoder.                                         *)
(***************************************************************************)
\* The values held by a container, in order.
MemberValues(v) ==
    IF v.t = "arr" THEN v.a ELSE [i \in 1..Len(v.o) |-> v.o[i].val]

\* C21: parseJson applied to the JSON text of a string returns the string,
\* and applied to the JSON text of an array or object of strings returns a
\* container with the same number of elements and the same element values.
C21_ParseJsonLeftInverse ==
    (fnName = "parseJson" /\ fnRes.done) =>
        /\ fnArg.t = "str" => fnRes.out = fnArg
        /\ fnArg.t \in {"arr", "obj"} =>
              (fnRes.out.t = fnArg.t /\ MemberValues(fnRes.out) = MemberValues(fnArg))

(***************************************************************************)
(* Null, undefined and wide integers in generated code.                    *)
(***************************************************************************)
\* The null literal of a generator's target language.
TargetNull(gen) ==
    CASE gen = "python" -> <<"N", "o", "n", "e">>
      [] gen \in {"go", "ruby", "go_part_002", "ruby_part_003"} -> <<"n", "i", "l">>
      [] gen = "cpp" -> <<"n", "u", "l", "l", "p", "t", "r">>
      [] OTHER -> <<"n", "u", "l", "l">>

\* C22: for every generator, valueToCode(undefined) is the same text as
\* valueToCode(null), and that text is the target language's null literal.
C22_UndefinedIsNull ==
    (fnName = "valueToCode" /\ fnRes.done /\ fnArg.value.t \in {"null", "undefined"}) =>
        /\ fnRes.out = LiteralCode(fnArg.gen, VNull)
        /\ fnRes.out = TargetNull(fnArg.gen)

\* The wide-integer suffix of a target language.
WideSuffix(gen) == IF gen = "cpp" THEN <<"L", "L">> ELSE <<"L">>

\* C23: for the Java, C++ and C# generators and every integer v,
\* valueToCode(v) is the decimal digits of v, followed by the wide-integer
\* suffix exactly when v lies outside the 32-bit range.
C23_WideIntegerSuffix ==
    (/\ fnName = "valueToCode" /\ fnRes.done
     /\ fnArg.value.t = "int" /\ fnArg.gen \in {"java", "cpp", "csharp"}) =>
        fnRes.out = (IF fnArg.value.b THEN <<"-">> ELSE <<>>) \o fnArg.value.s
                    \o (IF Exceeds32(fnArg.value) THEN WideSuffix(fnArg.gen) ELSE <<>>)

(***************************************************************************)
(* Lists and tuples in Python code.                                        *)
(***************************************************************************)
RECURSIVE ListOrTuple(_, _)
RECURSIVE JoinListOrTuple(_, _)
\* The code of v in which an array inside another array (inArray) is a
\* tuple and any other array a list.
ListOrTuple(v, inArray) ==
    CASE v.t = "arr" ->
            IF inArray
            THEN <<"(">> \o JoinListOrTuple([i \in 1..Len(v.a) |-> v.a[i]], TRUE)
                 \o (IF Len(v.a) = 1 THEN <<",)">> ELSE <<")">>)
            ELSE <<"[">> \o JoinListOrTuple([i \in 1..Len(v.a) |-> v.a[i]], TRUE) \o <<"]">>
      [] v.t = "obj" ->
            <<"{">> \o JoinListOrTuple([i \in 1..Len(v.o) |-> v.o[i]], inArray) \o <<"}">>
      [] OTHER -> PyValueToCode(v, 0).code

\* The members, or the key: value pairs, joined by ', '.
JoinListOrTuple(q, inArray) ==
    IF q = <<>> THEN <<>>
    ELSE (IF "key" \in DOMAIN Head(q)
          THEN <<"\"", Head(q).key, "\"", ": ">> \o ListOrTuple(Head(q).val, inArray)
          ELSE ListOrTuple(Head(q), inArray))
         \o (IF Tail(q) = <<>> THEN <<>> ELSE <<", ">>)
         \o JoinListOrTuple(Tail(q), inArray)

\* C24: PythonGenerator.valueToCode renders an array that is in no other
\* array as a list and an array nested, directly or through objects, in
\* another array as a tuple, '(x,)' when it has one element, at every depth
\* and at every position among the arguments of callToNative.
C24_TopListNestedTuple ==
    (pyOut.called /\ ~pyOut.threw) =>
        pyOut.code = (IF pyArg.op = "valueToCode" THEN ListOrTuple(pyArg.v, FALSE)
                      ELSE <<"f", "(">> \o JoinListOrTuple(pyArg.v.a, FALSE) \o <<")">>)

(***************************************************************************)
(* The summary of a /testCompile response.                                 *)
(***************************************************************************)
\* C28: in every 200 response of /testCompile, summary.total is the number
\* of submitted test cases, 0 <= passed <= total, passed + failed = total,
\* passed is the number of test_results entries with passed = true, and
\* test_results has one entry per submitted test case.
C28_SummaryConsistent ==
    hResp.status = 200 =>
        LET n == Len(hReq.test_cases.items) IN
        /\ hResp.summary.total = n
        /\ 0 <= hResp.summary.passed /\ hResp.summary.passed <= hResp.summary.total
        /\ hResp.summary.passed + hResp.summary.failed = hResp.summary.total
        /\ hResp.summary.passed = CountPassed(hResp.test_results)
        /\ Len(hResp.test_results) = n

(***************************************************************************)
(* Properties of the /connect websocket.                                   *)
(***************************************************************************)
\* C25: every job created (here by a websocket init) has job.cleanup
\* invoked exactly once: never twice, and once when every handler that was
\* started has run to its end.
C25_CleanedUpExactlyOnce ==
    /\ \A j \in 1..Len(wsJobs) : wsJobs[j].cleaned <= 1
    /\ (\A h \in 1..Len(wsHandlers) : wsHandlers[h].pc = "done") =>
          \A j \in 1..Len(wsJobs) : wsJobs[j].cleaned = 1

\* C26: on one socket at most one job is ever created and executed; an init
\* message that arrives after a first init closes the socket with 4000; and
\* the socket is closed with 4001 only if no init message came before the
\* timer fired.
C26_AtMostOneJob ==
    /\ Len(wsJobs) <= 1
    /\ \A j \in 1..Len(wsJobs) : wsJobs[j].executed <= 1
    /\ \A i \in 1..Len(wsLog) :
          (wsLog[i].msg = "init" /\ \E k \in 1..(i - 1) : wsLog[k].msg = "init")
             => wsLog[i].close = 4000
    /\ wsSocket.code = 4001 =>
          \A i \in 1..Len(wsLog) :
             wsLog[i].msg = "timer" => \A k \in 1..(i - 1) : wsLog[k].msg # "init"

\* C27: a stdin or signal event is emitted only when a job exists; a data or
\* signal message handled while there is none closes the socket with 4003,
\* a data message for another stream than stdin closes it with 4004 and a
\* signal that is not listed closes it with 4005, and these emit nothing.
C27_EmitOnlyWithJob ==
    \A i \in 1..Len(wsLog) :
       LET e == wsLog[i]
           closedHere == e.close # 0 /\ wsSocket = [open |-> FALSE, code |-> e.close]
       IN e.msg \in {"data", "signal"} =>
            /\ e.emit => (e.jobThen # 0 /\ e.jobThen \in 1..Len(wsJobs))
            /\ e.jobThen = 0 => (~e.emit /\ e.close = 4003 /\ closedHere)
            /\ (e.jobThen # 0 /\ e.msg = "data" /\ e.arg # "stdin") =>
                  (~e.emit /\ e.close = 4004 /\ closedHere)
            /\ (e.jobThen # 0 /\ e.msg = "signal" /\ e.arg # "listed") =>
                  (~e.emit /\ e.close = 4005 /\ closedHere)

\* A data message for stdin and a listed signal were emitted for a job, and
\* a later data message for another stream closed the socket with 4004.
C27_Witness ==
    /\ Len(wsLog) >= 3
    /\ \E i, j, k \in 1..Len(wsLog) :
          /\ wsLog[i].msg = "init" /\ i < j /\ j < k
          /\ wsLog[j].msg = "data" /\ wsLog[j].arg = "stdin" /\ wsLog[j].emit
          /\ wsLog[k].msg = "data" /\ wsLog[k].arg = "stdout" /\ wsLog[k].close = 4004
    /\ wsSocket.code = 4004

(***************************************************************************)
(* Symmetry of the JavaScript comparator.                                  *)
(***************************************************************************)
\* C29: for all values a and b, Sets and Maps with array or object members
\* and Sets with several deep-equal members included, deepEquals(a, b)
\* equals deepEquals(b, a).
C29_DeepEqualsSymmetric ==
    (fnName = "deepEquals" /\ fnRes.done) => (fnRes.ab = fnRes.ba)

(***************************************************************************)
(* String literals under the tuple rewrite.                                *)
(***************************************************************************)
RECURSIVE LiteralFlags(_, _, _)
\* For each position of str from i on, whether it lies in a string literal
\* (its quotes included) as JavaScript reads the text: a literal opened by a
\* quote or a grave accent runs to the next such character that is not
\* escaped, and a backslash inside it escapes the character after it.
LiteralFlags(str, i, quote) ==
    IF i > Len(str) THEN <<>>
    ELSE IF quote = ""
    THEN IF str[i] \in {"\"", "'", "backtick"}
         THEN <<TRUE>> \o LiteralFlags(str, i + 1, str[i])
         ELSE <<FALSE>> \o LiteralFlags(str, i + 1, "")
    ELSE IF str[i] = "\\" /\ i < Len(str)
    THEN <<TRUE, TRUE>> \o LiteralFlags(str, i + 2, quote)
    ELSE <<TRUE>> \o LiteralFlags(str, i + 1, IF str[i] = quote THEN "" ELSE quote)

RECURSIVE NestedFrom(_, _, _, _)
\* The brackets of str outside literals, from i on, close the openers on the
\* stack and each other, each opener closed by its own kind.
NestedFrom(str, flags, i, stack) ==
    IF i > Len(str) THEN stack = <<>>
    ELSE IF flags[i] \/ str[i] \notin {"(", ")", "[", "]"}
    THEN NestedFrom(str, flags, i + 1, stack)
    ELSE IF str[i] \in {"(", "["} THEN NestedFrom(str, flags, i + 1, Append(stack, str[i]))
    ELSE /\ stack # <<>>
         /\ stack[Len(stack)] = (IF str[i] = ")" THEN "(" ELSE "[")
         /\ NestedFrom(str, flags, i + 1, SubSeq(stack, 1, Len(stack) - 1))

\* C30: convertPythonTuplesToArrays returns a text of the same length that
\* differs from the input only at a "(" or ")" outside string literals, so
\* the contents of every string literal are unchanged; and when the input's
\* brackets outside strings are well nested, so are the output's.
C30_LiteralsUntouched ==
    (fnName = "convertTuples" /\ fnRes.done) =>
        LET flags == LiteralFlags(fnArg, 1, "") IN
        /\ Len(fnRes.result) = Len(fnArg)
        /\ \A i \in 1..Len(fnArg) :
              fnRes.result[i] # fnArg[i] => (fnArg[i] \in {"(", ")"} /\ ~flags[i])
        /\ NestedFrom(fnArg, flags, 1, <<>>) => NestedFrom(fnRes.result, flags, 1, <<>>)

====
